---- MODULE Spec2Model ----
(***************************************************************************)
(* JSpeak local speech service (src/Python/jsp_speech_service.py): the      *)
(* JSONL request handler Service.handle with its per-session streaming      *)
(* state (StreamSession), the endpoint detector, the partial stabilizer,    *)
(* the diff engine, the text normalizer and the command interpreter.        *)
(*                                                                          *)
(* Text is a sequence of Unicode code points (Python str), so that the      *)
(* character classes of the source's regular expressions are ranges of      *)
(* numbers.  The audio buffer is kept by its size in samples: its content   *)
(* reaches only the VAD (whose per-frame verdicts are inputs of a push)     *)
(* and the transcription engine (a black box whose outcome is chosen        *)
(* nondeterministically).                                                   *)
(***************************************************************************)
EXTENDS Integers, Sequences, FiniteSets, TLC

VARIABLES
    sessions,    \* Service.sessions: session id -> StreamSession
    model_name,  \* WhisperEngine._model_name ("None" when nothing is loaded)
    req,         \* the request handled last
    resp,        \* the response written for it
    eng,         \* the engine invocations made while handling it
    pure,        \* input and result of the pure text function applied last
    io,          \* main: its position in the request loop, the kind of the line
                 \* read last, and the responses written for that line
    mic          \* jsp_mic_client: the chunk queue, the stop flag, the input
                 \* stream and the position of the capture callback

vars == <<sessions, model_name, req, resp, eng, pure, io, mic>>

-----------------------------------------------------------------------------
(* Python str helpers                                                       *)

Min(a, b) == IF a < b THEN a ELSE b

Max(a, b) == IF a > b THEN a ELSE b

\* s[:k]
Take(s, k) == SubSeq(s, 1, Min(k, Len(s)))

\* s[k:]
Drop(s, k) == IF k >= Len(s) THEN <<>> ELSE SubSeq(s, k + 1, Len(s))

\* s.startswith(p)
StartsWith(s, p) == Len(p) <= Len(s) /\ SubSeq(s, 1, Len(p)) = p

\* s.endswith(p)
EndsWith(s, p) == Len(p) <= Len(s) /\ SubSeq(s, Len(s) - Len(p) + 1, Len(s)) = p

\* the code points for which str.isspace() holds (str.strip() and regex \s)
PyWhitespace ==
    {9, 10, 11, 12, 13, 28, 29, 30, 31, 32, 133, 160, 5760, 8232, 8233, 8239, 8287, 12288}
    \cup (8192..8202)

RECURSIVE LStrip(_, _)
LStrip(s, chars) ==
    IF s # <<>> /\ Head(s) \in chars THEN LStrip(Tail(s), chars) ELSE s

RECURSIVE RStrip(_, _)
RStrip(s, chars) ==
    IF s # <<>> /\ s[Len(s)] \in chars THEN RStrip(SubSeq(s, 1, Len(s) - 1), chars) ELSE s

\* s.strip(chars)
StripChars(s, chars) == RStrip(LStrip(s, chars), chars)

\* s.strip()
Strip(s) == StripChars(s, PyWhitespace)

\* str.lower() on the cased letters the model's texts use (ASCII A-Z)
LowerChar(c) == IF 65 <= c /\ c <= 90 THEN c + 32 ELSE c

Lower(s) == [i \in 1..Len(s) |-> LowerChar(s[i])]

\* word occurs in s at position i (1-based)
OccursAt(s, word, i) ==
    i >= 1 /\ i + Len(word) - 1 <= Len(s) /\ SubSeq(s, i, i + Len(word) - 1) = word

\* re.search of an alternation of literal words
ContainsAny(s, words) == \E w \in words : \E i \in 1..Len(s) : OccursAt(s, w, i)

\* [\u4e00-\u9fff]
IsCJK(c) == 19968 <= c /\ c <= 40959

\* [A-Za-z0-9]
IsAsciiAlnum(c) == (48 <= c /\ c <= 57) \/ (65 <= c /\ c <= 90) \/ (97 <= c /\ c <= 122)

\* regex \w on str: alphanumerics and the underscore (CJK ideographs are alphanumeric)
IsWordChar(c) == IsAsciiAlnum(c) \/ c = 95 \/ IsCJK(c)

HasCJK(s) == \E i \in 1..Len(s) : IsCJK(s[i])

-----------------------------------------------------------------------------
(* Text Normalizer                                                          *)

\* one re.sub pass of _normalize_mixed_spacing; cjk_first selects _RE_CJK_ASCII
RECURSIVE SpacingPass(_, _, _)
SpacingPass(text, i, cjk_first) ==
    IF i > Len(text) THEN <<>>
    ELSE IF /\ i < Len(text)
            /\ IF cjk_first
               THEN IsCJK(text[i]) /\ IsAsciiAlnum(text[i + 1])
               ELSE IsAsciiAlnum(text[i]) /\ IsCJK(text[i + 1])
         THEN <<text[i], 32, text[i + 1]>> \o SpacingPass(text, i + 2, cjk_first)
         ELSE <<text[i]>> \o SpacingPass(text, i + 1, cjk_first)

_normalize_mixed_spacing(text) ==
    SpacingPass(SpacingPass(text, 1, TRUE), 1, FALSE)

\* the character class of _RE_END_PUNCT and _RE_TRAILING_PUNCT
EndPunctChars == {46, 33, 63, 12290, 65281, 65311, 8230}

\* _RE_TRAILING_PUNCT.sub("", t)
StripTrailingPunct(t) == RStrip(t, EndPunctChars)

\* _RE_END_PUNCT.search(t)
EndsWithPunct(t) == t # <<>> /\ t[Len(t)] \in EndPunctChars

\* _RE_CN_COMMA.search(text)
HasComma(text) == \E i \in 1..Len(text) : text[i] \in {65292, 44}

\* the alternatives of _RE_CN_CONNECTOR
CnConnectors ==
    { <<20294, 26159>>,
      <<19981, 36807>>,
      <<28982, 21518>>,
      <<25152, 20197>>,
      <<22240, 27492>>,
      <<32780, 19988>>,
      <<24182, 19988>>,
      <<21516, 26102>>,
      <<21478, 22806>>,
      <<22240, 20026>>,
      <<22914, 26524>>,
      <<34429, 28982>>,
      <<25509, 30528>>,
      <<38543, 21518>> }

QuestionEndings == {21527, 20040}

QuestionInfixes ==
    { <<26159, 19981, 26159>>,
      <<26159, 21542>>,
      <<33021, 19981, 33021>>,
      <<21487, 19981, 21487, 20197>>,
      <<21487, 20197, 21527>>,
      <<35201, 19981, 35201>>,
      <<38656, 19981, 38656, 35201>>,
      <<26377, 27809, 26377>> }

QuestionStartsCn ==
    { <<24590, 20040>>,
      <<20026, 20160, 20040>>,
      <<20026, 21861>>,
      <<22810, 23569>>,
      <<20960>>,
      <<21738>>,
      <<35841>>,
      <<21861>>,
      <<20160, 20040>>,
      <<20309, 26102>>,
      <<20160, 20040, 26102, 20505>> }

QuestionStartsEn ==
    { <<99, 97, 110>>,
      <<99, 111, 117, 108, 100>>,
      <<119, 111, 117, 108, 100>>,
      <<115, 104, 111, 117, 108, 100>>,
      <<100, 111>>,
      <<100, 111, 101, 115>>,
      <<100, 105, 100>>,
      <<105, 115>>,
      <<97, 114, 101>>,
      <<97, 109>>,
      <<119, 97, 115>>,
      <<119, 101, 114, 101>>,
      <<119, 104, 97, 116>>,
      <<119, 104, 121>>,
      <<104, 111, 119>>,
      <<119, 104, 101, 110>>,
      <<119, 104, 101, 114, 101>>,
      <<119, 104, 105, 99, 104>>,
      <<119, 104, 111>> }

_looks_like_question(text) ==
    LET t0 == Strip(text)
        t == Strip(StripTrailingPunct(t0))
        lower == Lower(t)
    IN  IF t0 = <<>> THEN FALSE
        ELSE IF t = <<>> THEN FALSE
        ELSE IF t[Len(t)] \in QuestionEndings THEN TRUE
        ELSE IF ContainsAny(t, QuestionInfixes) THEN TRUE
        ELSE IF \E w \in QuestionStartsCn : StartsWith(t, w) THEN TRUE
        ELSE IF \E w \in QuestionStartsEn :
                    /\ StartsWith(lower, w)
                    /\ (Len(lower) = Len(w) \/ ~IsWordChar(lower[Len(w) + 1]))
             THEN TRUE
        ELSE FALSE

_maybe_insert_cn_comma(text) ==
    IF text = <<>> THEN text
    ELSE IF ~HasCJK(text) THEN text
    ELSE IF HasComma(text) THEN text
    ELSE IF Len(text) < 14 THEN text
    ELSE IF ~ContainsAny(text, CnConnectors) THEN text
    ELSE LET first == CHOOSE i \in 1..Len(text) :
                          /\ \E w \in CnConnectors : OccursAt(text, w, i)
                          /\ \A j \in 1..(i - 1) : \A w \in CnConnectors : ~OccursAt(text, w, j)
             idx == first - 1
         IN  IF idx <= 1 THEN text
             ELSE Take(text, idx) \o <<65292>> \o Drop(text, idx)

_apply_tone_punctuation(text) ==
    LET t == Strip(text)
        has_cjk == HasCJK(t)
        base0 == Strip(StripTrailingPunct(t))
        base == _maybe_insert_cn_comma(base0)
    IN  IF t = <<>> THEN t
        ELSE IF base0 = <<>> THEN t
        ELSE IF _looks_like_question(base)
             THEN base \o (IF has_cjk THEN <<65311>> ELSE <<63>>)
        ELSE IF EndsWithPunct(t)
             THEN IF has_cjk /\ EndsWith(t, <<46>>) THEN base \o <<12290>> ELSE t
        ELSE base \o (IF has_cjk THEN <<12290>> ELSE <<46>>)

-----------------------------------------------------------------------------
(* Command Interpreter                                                      *)

\* the characters of the second strip of _clean_command_text
CleanStripChars == {13, 10, 9, 32, 44, 46, 33, 63, 59, 58, 65292, 12290, 65281, 65311, 65307, 65306}

_clean_command_text(text) == StripChars(Strip(text), CleanStripChars)

\* the punctuation of the character class removed by _command_key (besides \s)
KeyPunctChars == {44, 46, 33, 63, 59, 58, 65292, 12290, 65281, 65311, 65307, 65306}

\* the character class [\s,\.\!\?;:...] of _command_key
KeyStripChars == PyWhitespace \cup KeyPunctChars

_command_key(text) ==
    SelectSeq(Lower(_clean_command_text(text)), LAMBDA c : c \notin KeyStripChars)

_SUPPRESSED_KEYS ==
    { _command_key(<<35831, 20248, 20808, 20351, 29992, 31616, 20307, 20013, 25991, 26631, 28857, 19982, 34920, 36798, 65292, 20445, 30041, 33521, 25991, 21333, 35789>>),
      _command_key(<<35831, 20351, 29992, 31616, 20307, 20013, 25991, 26631, 28857, 19982, 34920, 36798, 65292, 20445, 30041, 33521, 25991, 21333, 35789>>),
      _command_key(<<35831, 20248, 20808, 20351, 29992, 31616, 20307, 20013, 25991, 26631, 28857, 19982, 34920, 36798, 65292, 20445, 30041, 33521, 25991, 21333, 35789, 47, 32553, 20889, 21407, 26679>>) }

\* mutant: no phrase is suppressed
NeverSuppressed(text) == FALSE

_is_suppressed_phrase(text) == _command_key(text) \in _SUPPRESSED_KEYS

\* the phrases _command_actions compares with (its tuples and punct_map), each with
\* the action list it returns
CommandTable ==
    (<<25442, 34892>> :> <<[type |-> "insert", text |-> <<10>>]>>)
    @@ (<<22238, 36710>> :> <<[type |-> "insert", text |-> <<10>>]>>)
    @@ (<<19979, 19968, 34892>> :> <<[type |-> "insert", text |-> <<10>>]>>)
    @@ (<<110, 101, 119, 32, 108, 105, 110, 101>> :> <<[type |-> "insert", text |-> <<10>>]>>)
    @@ (<<110, 101, 119, 108, 105, 110, 101>> :> <<[type |-> "insert", text |-> <<10>>]>>)
    @@ (<<101, 110, 116, 101, 114>> :> <<[type |-> "insert", text |-> <<10>>]>>)
    @@ (<<31354, 26684>> :> <<[type |-> "insert", text |-> <<32>>]>>)
    @@ (<<115, 112, 97, 99, 101>> :> <<[type |-> "insert", text |-> <<32>>]>>)
    @@ (<<21024, 38500>> :> <<[type |-> "delete_backward", count |-> 1]>>)
    @@ (<<36864, 26684>> :> <<[type |-> "delete_backward", count |-> 1]>>)
    @@ (<<98, 97, 99, 107, 115, 112, 97, 99, 101>> :> <<[type |-> "delete_backward", count |-> 1]>>)
    @@ (<<100, 101, 108, 101, 116, 101>> :> <<[type |-> "delete_backward", count |-> 1]>>)
    @@ (<<21024, 38500, 19968, 20010, 35789>> :> <<[type |-> "delete_backward_word", count |-> 1]>>)
    @@ (<<21024, 38500, 19978, 19968, 20010, 35789>> :> <<[type |-> "delete_backward_word", count |-> 1]>>)
    @@ (<<100, 101, 108, 101, 116, 101, 32, 119, 111, 114, 100>> :> <<[type |-> "delete_backward_word", count |-> 1]>>)
    @@ (<<100, 101, 108, 101, 116, 101, 32, 108, 97, 115, 116, 32, 119, 111, 114, 100>> :> <<[type |-> "delete_backward_word", count |-> 1]>>)
    @@ (<<21024, 38500, 19968, 21477>> :> <<[type |-> "delete_backward_sentence", count |-> 1]>>)
    @@ (<<21024, 38500, 19978, 19968, 21477>> :> <<[type |-> "delete_backward_sentence", count |-> 1]>>)
    @@ (<<100, 101, 108, 101, 116, 101, 32, 115, 101, 110, 116, 101, 110, 99, 101>> :> <<[type |-> "delete_backward_sentence", count |-> 1]>>)
    @@ (<<100, 101, 108, 101, 116, 101, 32, 108, 97, 115, 116, 32, 115, 101, 110, 116, 101, 110, 99, 101>> :> <<[type |-> "delete_backward_sentence", count |-> 1]>>)
    @@ (<<25764, 38144>> :> <<[type |-> "system_undo"]>>)
    @@ (<<117, 110, 100, 111>> :> <<[type |-> "system_undo"]>>)
    @@ (<<37325, 20570>> :> <<[type |-> "system_redo"]>>)
    @@ (<<114, 101, 100, 111>> :> <<[type |-> "system_redo"]>>)
    @@ (<<28165, 31354>> :> <<[type |-> "clear"]>>)
    @@ (<<28165, 38500>> :> <<[type |-> "clear"]>>)
    @@ (<<99, 108, 101, 97, 114>> :> <<[type |-> "clear"]>>)
    @@ (<<36887, 21495>> :> <<[type |-> "insert", text |-> <<65292>>]>>)
    @@ (<<21477, 21495>> :> <<[type |-> "insert", text |-> <<12290>>]>>)
    @@ (<<38382, 21495>> :> <<[type |-> "insert", text |-> <<65311>>]>>)
    @@ (<<24863, 21497, 21495>> :> <<[type |-> "insert", text |-> <<65281>>]>>)
    @@ (<<20882, 21495>> :> <<[type |-> "insert", text |-> <<65306>>]>>)
    @@ (<<20998, 21495>> :> <<[type |-> "insert", text |-> <<65307>>]>>)
    @@ (<<99, 111, 109, 109, 97>> :> <<[type |-> "insert", text |-> <<44>>]>>)
    @@ (<<112, 101, 114, 105, 111, 100>> :> <<[type |-> "insert", text |-> <<46>>]>>)
    @@ (<<113, 117, 101, 115, 116, 105, 111, 110, 32, 109, 97, 114, 107>> :> <<[type |-> "insert", text |-> <<63>>]>>)
    @@ (<<101, 120, 99, 108, 97, 109, 97, 116, 105, 111, 110, 32, 109, 97, 114, 107>> :> <<[type |-> "insert", text |-> <<33>>]>>)
    @@ (<<99, 111, 108, 111, 110>> :> <<[type |-> "insert", text |-> <<58>>]>>)
    @@ (<<115, 101, 109, 105, 99, 111, 108, 111, 110>> :> <<[type |-> "insert", text |-> <<59>>]>>)

\* _command_actions returns None ("not a command") or a list of actions
NotACommand == [is_command |-> FALSE, actions |-> <<>>]

Matched(actions) == [is_command |-> TRUE, actions |-> actions]

\* mutant: the table lookup is made with the key of _command_key
LookupTextByKey(text) == _command_key(text)

\* the text the table lookup of _command_actions is made with
LookupText(text) == Lower(_clean_command_text(text))

_command_actions(text) ==
    LET t == LookupText(text)
    IN  IF t = <<>> THEN NotACommand
        ELSE IF _is_suppressed_phrase(t) THEN Matched(<<>>)
        ELSE IF t \in DOMAIN CommandTable THEN Matched(CommandTable[t])
        ELSE NotACommand

\* mutant: the producer's actions are passed on for every kind
ComposeKeepsActions(kind, text, actions) == actions

_compose_actions(kind, text, actions) ==
    IF kind = "partial" THEN <<[type |-> "set_composition", text |-> text]>> ELSE actions

-----------------------------------------------------------------------------
(* Bounds and inputs of the model                                           *)

\* the utterance buffer is kept within this many 30 ms frames of 16 kHz audio
MaxBufferFrames == 4

MaxBufferSamples == MaxBufferFrames * 480

SessionIds == {"s1"}

Models == {"whisper-medium"}

\* stream_start params.sample_rate_hz (the engine accepts 16000 only)
SampleRates == {16000, 8000}

\* stream_start params.end_silence_ms
EndSilenceMs == {40}

\* stream_start params.partial_interval_ms
PartialIntervalMs == {15}

\* stream_start params.max_partial_context_s
MaxPartialContextS == {20}

\* stream_start params.min_partial_speech_ms
MinPartialSpeechMs == {60}

\* the number of samples carried by one stream_push
PushSizes == {240, 480, 960}

\* the hypotheses the transcription engine may return (WhisperEngine.transcribe
\* returns the stripped text of the model's result):
\*   "", "ni hao" (U+4F60 U+597D), "ni hao" + U+FF0C, "ni hao" + U+FF0C + "shijie" + U+3002,
\*   "nin hao" + U+FF0C + "shijie" + U+3002, "huanhang" (U+6362 U+884C, a command phrase),
\*   and the second phrase of _SUPPRESSED_KEYS followed by U+3002
Hyps ==
    { <<>>,
      <<20320, 22909>>,
      <<20320, 22909, 65292>>,
      <<20320, 22909, 65292, 19990, 30028, 12290>>,
      <<24744, 22909, 65292, 19990, 30028, 12290>>,
      <<25442, 34892>>,
      <<35831, 20351, 29992, 31616, 20307, 20013, 25991, 26631, 28857, 19982, 34920, 36798, 65292, 20445, 30041, 33521, 25991, 21333, 35789, 12290>> }

-----------------------------------------------------------------------------
(* StreamSession                                                            *)

\* StreamSession(...) as Service.handle constructs it; buffer_size is buffer_f32.size
\* (language, prompt and created_at reach only the engine and are left out)
NewSession(sample_rate_hz, partial_interval_ms, max_partial_context_s, min_partial_speech_ms, end_silence_ms) ==
    [ sample_rate_hz        |-> sample_rate_hz,
      buffer_size           |-> 0,
      speech_frames         |-> 0,
      silence_frames        |-> 0,
      last_emitted_text     |-> <<>>,
      segments_text         |-> <<>>,
      partial_interval_ms   |-> partial_interval_ms,
      max_partial_context_s |-> max_partial_context_s,
      min_partial_speech_ms |-> min_partial_speech_ms,
      last_partial_samples  |-> 0,
      committed_prefix      |-> <<>>,
      last_prefix_candidate |-> <<>>,
      prefix_streak         |-> 0,
      frame_ms              |-> 30,
      end_silence_ms        |-> end_silence_ms ]

\* mutant: the reset leaves the stabilization state of the utterance in place
ResetKeepsPrefix(sess) ==
    [sess EXCEPT !.buffer_size = 0,
                 !.speech_frames = 0,
                 !.silence_frames = 0,
                 !.last_emitted_text = <<>>,
                 !.last_partial_samples = 0]

\* mutant: the reset keeps the last emitted text
ResetKeepsEmitted(sess) ==
    [sess EXCEPT !.buffer_size = 0,
                 !.speech_frames = 0,
                 !.silence_frames = 0,
                 !.last_partial_samples = 0,
                 !.committed_prefix = <<>>,
                 !.last_prefix_candidate = <<>>,
                 !.prefix_streak = 0]

reset_current_utterance(sess) ==
    [sess EXCEPT !.buffer_size = 0,
                 !.speech_frames = 0,
                 !.silence_frames = 0,
                 !.last_emitted_text = <<>>,
                 !.last_partial_samples = 0,
                 !.committed_prefix = <<>>,
                 !.last_prefix_candidate = <<>>,
                 !.prefix_streak = 0]

\* frame_len = int(sample_rate_hz * (frame_ms / 1000.0))
FrameLen(sess) == (sess.sample_rate_hz * sess.frame_ms) \div 1000

\* mutant: the frames are counted over the whole buffer, not over the new samples
NumFramesOfBuffer(sess, n) ==
    IF FrameLen(sess) <= 0 THEN 0 ELSE (sess.buffer_size + n) \div FrameLen(sess)

\* n_frames = audio_f32.size // frame_len, for frame_len > 0
NumFrames(sess, n) == IF FrameLen(sess) <= 0 THEN 0 ELSE n \div FrameLen(sess)

\* mutant: enough silence ends an utterance even when no speech was seen
EndpointOnSilenceAlone(sess, speech_frames, silence_frames) ==
    silence_frames * sess.frame_ms >= sess.end_silence_ms

\* the endpoint condition tested after a silent frame
EndpointCondition(sess, speech_frames, silence_frames) ==
    speech_frames > 0 /\ silence_frames * sess.frame_ms >= sess.end_silence_ms

\* mutant: a speech frame does not clear the run of silent frames
FrameStepKeepsSilence(sess, st, is_speech) ==
    IF is_speech
    THEN [st EXCEPT !.speech_frames = @ + 1]
    ELSE [st EXCEPT !.silence_frames = @ + 1,
                    !.endpoint = st.endpoint
                                 \/ EndpointCondition(sess, st.speech_frames, st.silence_frames + 1)]

\* one iteration of the frame loop of push_audio; st = [endpoint, speech_frames,
\* silence_frames], is_speech the verdict of EnergyVAD.is_speech on the frame
FrameStep(sess, st, is_speech) ==
    IF is_speech
    THEN [st EXCEPT !.speech_frames = @ + 1, !.silence_frames = 0]
    ELSE [st EXCEPT !.silence_frames = @ + 1,
                    !.endpoint = st.endpoint
                                 \/ EndpointCondition(sess, st.speech_frames, st.silence_frames + 1)]

RECURSIVE FrameLoop(_, _, _, _)
FrameLoop(sess, st, flags, i) ==
    IF i > Len(flags) THEN st
    ELSE FrameLoop(sess, FrameStep(sess, st, flags[i]), flags, i + 1)

\* StreamSession.push_audio on n samples whose whole frames the VAD classifies as
\* flags: the session afterwards and the returned endpoint flag
push_audio(sess, n, flags) ==
    IF n = 0 THEN [sess |-> sess, endpoint |-> FALSE]
    ELSE LET appended == [sess EXCEPT !.buffer_size = @ + n]
         IN  IF FrameLen(sess) <= 0 \/ NumFrames(sess, n) <= 0
             THEN [sess |-> appended, endpoint |-> FALSE]
             ELSE LET st == FrameLoop(sess,
                                      [endpoint |-> FALSE,
                                       speech_frames |-> sess.speech_frames,
                                       silence_frames |-> sess.silence_frames],
                                      flags, 1)
                  IN  [sess |-> [appended EXCEPT !.speech_frames = st.speech_frames,
                                                 !.silence_frames = st.silence_frames],
                       endpoint |-> st.endpoint]

-----------------------------------------------------------------------------
(* Diff Engine and Partial Stabilizer                                       *)

RECURSIVE CommonPrefixLoop(_, _, _, _)
CommonPrefixLoop(a, b, n, i) ==
    IF i < n /\ a[i + 1] = b[i + 1] THEN CommonPrefixLoop(a, b, n, i + 1) ELSE i

\* mutant: the comparison of the characters is left out
CommonPrefixLenUncompared(a, b) == Min(Len(a), Len(b))

_common_prefix_len(a, b) == CommonPrefixLoop(a, b, Min(Len(a), Len(b)), 0)

\* the delta fields of a stream_push response for prev -> text
Delta(prev, text) ==
    LET cpl == _common_prefix_len(prev, text)
    IN  [delta_from |-> cpl, delta_delete |-> Len(prev) - cpl, delta_insert |-> Drop(text, cpl)]

BoundaryChars ==
    {32, 9, 10, 13, 44, 46, 33, 63, 59, 58, 65292, 12290, 65281, 65311, 65307, 65306}

RECURSIVE BoundaryLoop(_, _)
BoundaryLoop(text, i) ==
    IF i < 1 THEN <<>>
    ELSE IF text[i] \in BoundaryChars THEN Take(text, i)
    ELSE BoundaryLoop(text, i - 1)

_boundary_prefix(text) == IF text = <<>> THEN <<>> ELSE BoundaryLoop(text, Len(text))

\* the streak update of a partial pass for the boundary candidate of the hypothesis
UpdateStreak(sess, candidate) ==
    IF candidate # <<>> /\ candidate = sess.last_prefix_candidate
    THEN [sess EXCEPT !.prefix_streak = @ + 1]
    ELSE [sess EXCEPT !.last_prefix_candidate = candidate,
                      !.prefix_streak = IF candidate # <<>> THEN 1 ELSE 0]

\* mutant: a repeated candidate overwrites the committed prefix, whatever its length
LockPrefixOverwrite(sess, candidate) ==
    IF candidate # <<>> /\ sess.prefix_streak >= 2
    THEN [sess EXCEPT !.committed_prefix = candidate]
    ELSE sess

\* mutant: a longer repeated candidate is locked without the startswith test
LockPrefixAnyLonger(sess, candidate) ==
    IF /\ candidate # <<>>
       /\ sess.prefix_streak >= 2
       /\ Len(candidate) > Len(sess.committed_prefix)
    THEN [sess EXCEPT !.committed_prefix = candidate]
    ELSE sess

\* mutant: the candidate is locked the first time it is seen
LockPrefixAtOnce(sess, candidate) ==
    IF /\ candidate # <<>>
       /\ sess.prefix_streak >= 1
       /\ Len(candidate) > Len(sess.committed_prefix)
       /\ StartsWith(candidate, sess.committed_prefix)
    THEN [sess EXCEPT !.committed_prefix = candidate]
    ELSE sess

\* the lock of the committed prefix ("Monotonic growth only")
LockPrefix(sess, candidate) ==
    IF /\ candidate # <<>>
       /\ sess.prefix_streak >= 2
       /\ Len(candidate) > Len(sess.committed_prefix)
       /\ StartsWith(candidate, sess.committed_prefix)
    THEN [sess EXCEPT !.committed_prefix = candidate]
    ELSE sess

\* the stabilization of a partial pass on a non-empty hypothesis
Stabilize(sess, text) ==
    LET candidate == _boundary_prefix(text)
    IN  LockPrefix(UpdateStreak(sess, candidate), candidate)

-----------------------------------------------------------------------------
(* Transcription engine (external)                                          *)

\* Python None for a response's result
None == <<>>

\* the outcomes of WhisperEngine.transcribe: it raises for a sample rate other than
\* 16000 Hz and whenever mlx_whisper raises, and otherwise returns a text
TranscribeOutcomes(sess) ==
    IF sess.sample_rate_hz # 16000
    THEN {[ok |-> FALSE, text |-> <<>>, error |-> "Only 16000Hz supported right now"]}
    ELSE {[ok |-> FALSE, text |-> <<>>, error |-> "transcription failed"]}
         \cup {[ok |-> TRUE, text |-> h, error |-> "None"] : h \in Hyps}

NotInvoked == [ok |-> FALSE, text |-> <<>>, error |-> "not invoked"]

\* what eng records of a request: how often transcribe was called, on how many
\* samples, and its outcome
NoEngineCall == [calls |-> 0, samples |-> 0, out |-> NotInvoked]

EngineCall(samples, out) == [calls |-> 1, samples |-> samples, out |-> out]

-----------------------------------------------------------------------------
(* Service.handle                                                           *)

_ok(result) == [ok |-> TRUE, result |-> result, error |-> "None"]

\* mutant: an error response that also carries a result
ErrKeepsResult(message) == [ok |-> FALSE, result |-> [message |-> message], error |-> message]

_err(message) == [ok |-> FALSE, result |-> None, error |-> message]

\* the result of a stream_push that emits nothing (numbers are kept as integers
\* where the code sends their decimal string)
PushNone(sid, endpoint, speech_frames, silence_frames) ==
    [ session_id      |-> sid,
      endpoint        |-> endpoint,
      speech_frames   |-> speech_frames,
      silence_frames  |-> silence_frames,
      text            |-> <<>>,
      final           |-> "false",
      kind            |-> "none",
      committed_text  |-> <<>>,
      actions         |-> <<>>,
      stable_prefix   |-> <<>>,
      unstable_suffix |-> <<>>,
      delta_from      |-> 0,
      delta_delete    |-> 0,
      delta_insert    |-> <<>> ]

\* interval_samples = int(sample_rate_hz * (partial_interval_ms / 1000.0))
IntervalSamples(sess) == (sess.sample_rate_hz * sess.partial_interval_ms) \div 1000

\* the window of the buffer a partial pass transcribes: buffer_f32[start:]
WindowSamples(sess) ==
    sess.buffer_size
    - Max(0, sess.buffer_size - sess.max_partial_context_s * sess.sample_rate_hz)

\* mutant: a partial pass fires whenever the minimum speech is there, without
\* waiting for the interval
PushBranchIgnoresInterval(sess, endpoint) ==
    IF ~endpoint /\ sess.speech_frames > 0
    THEN IF sess.speech_frames * sess.frame_ms < sess.min_partial_speech_ms
         THEN "too_short"
         ELSE "partial"
    ELSE IF endpoint THEN "final" ELSE "idle"

\* mutant: the partial branch is entered without looking at endpoint
PushBranchIgnoresEndpoint(sess, endpoint) ==
    IF sess.speech_frames > 0
    THEN IF sess.speech_frames * sess.frame_ms < sess.min_partial_speech_ms
         THEN "too_short"
         ELSE IF /\ IntervalSamples(sess) > 0
                 /\ sess.buffer_size - sess.last_partial_samples >= IntervalSamples(sess)
              THEN "partial"
              ELSE "idle"
    ELSE IF endpoint THEN "final" ELSE "idle"

\* what stream_push does after push_audio returned endpoint for the session sess:
\*   "final"     the endpoint branch
\*   "too_short" the minimum-speech guard returns early
\*   "partial"   a partial transcription pass fires
\*   "idle"      neither
PushBranch(sess, endpoint) ==
    IF ~endpoint /\ sess.speech_frames > 0
    THEN IF sess.speech_frames * sess.frame_ms < sess.min_partial_speech_ms
         THEN "too_short"
         ELSE IF /\ IntervalSamples(sess) > 0
                 /\ sess.buffer_size - sess.last_partial_samples >= IntervalSamples(sess)
              THEN "partial"
              ELSE "idle"
    ELSE IF endpoint THEN "final" ELSE "idle"

\* mutant: a partial pass emits whether or not the visible text changed
AlwaysEmit(full_text, prev) == TRUE

\* if full_text != prev: the visible text is emitted only when it changed
ShouldEmit(full_text, prev) == full_text # prev

\* a partial pass whose transcription returned text: the session afterwards and
\* the result of the response
PartialPass(sid, sess, text) ==
    LET seen == [sess EXCEPT !.last_partial_samples = sess.buffer_size]
        none == PushNone(sid, "false", sess.speech_frames, sess.silence_frames)
    IN  IF text = <<>>
        THEN [sess |-> seen, result |-> none]
        ELSE LET st == Stabilize(seen, text)
                 stable_prefix == st.committed_prefix
                 unstable_suffix == Drop(text, Len(stable_prefix))
                 full_text == stable_prefix \o unstable_suffix
                 prev == sess.last_emitted_text
                 d == Delta(prev, full_text)
                 emit == ShouldEmit(full_text, prev)
             IN  [ sess |-> IF emit THEN [st EXCEPT !.last_emitted_text = full_text] ELSE st,
                   result |->
                     [none EXCEPT
                        !.text = IF emit THEN full_text ELSE <<>>,
                        !.kind = IF emit THEN "partial" ELSE "none",
                        !.actions = IF emit
                                    THEN _compose_actions("partial", full_text, <<>>)
                                    ELSE <<>>,
                        !.stable_prefix = stable_prefix,
                        !.unstable_suffix = unstable_suffix,
                        !.delta_from = d.delta_from,
                        !.delta_delete = d.delta_delete,
                        !.delta_insert = d.delta_insert] ]

\* the text and actions of a finalized transcript: spacing, command lookup, and
\* tone punctuation with an insert action when it is no command
Finalized(raw) ==
    LET spaced == _normalize_mixed_spacing(raw)
        cmd == _command_actions(spaced)
        toned == _apply_tone_punctuation(spaced)
    IN  IF cmd.is_command
        THEN [text |-> spaced, is_command |-> TRUE, actions |-> cmd.actions]
        ELSE [text |-> toned, is_command |-> FALSE,
              actions |-> IF toned # <<>>
                          THEN <<[type |-> "insert", text |-> toned]>>
                          ELSE <<>>]

\* the texts that reach Finalized: an engine result, or the cached finalized text
FinalizedInputs == Hyps \cup {Finalized(h).text : h \in Hyps}

\* Finalized, tabulated over those texts
FinalizedOf == [t \in FinalizedInputs |-> Finalized(t)]

\* the endpoint branch of stream_push for the finalized transcript f: the session
\* afterwards and the result of the response
FinalResult(sid, sess, f, committed_text) ==
    [ sess |-> reset_current_utterance(
                 IF f.text # <<>> THEN [sess EXCEPT !.segments_text = f.text] ELSE sess),
      result |->
        [ session_id      |-> sid,
          endpoint        |-> "true",
          speech_frames   |-> sess.speech_frames,
          silence_frames  |-> sess.silence_frames,
          text            |-> f.text,
          final           |-> "true",
          kind            |-> "final",
          committed_text  |-> committed_text,
          actions         |-> _compose_actions("final", f.text, f.actions),
          stable_prefix   |-> <<>>,
          unstable_suffix |-> <<>>,
          delta_from      |-> Delta(sess.last_emitted_text, f.text).delta_from,
          delta_delete    |-> Delta(sess.last_emitted_text, f.text).delta_delete,
          delta_insert    |-> Delta(sess.last_emitted_text, f.text).delta_insert ] ]

\* committed_text = "" if is_command else final_text
CommittedText(f) == IF f.is_command THEN <<>> ELSE f.text

\* mutant: the text of a command is reported as committed text too
FinalPassCommitsCommand(sid, sess, raw) ==
    FinalResult(sid, sess, FinalizedOf[raw], FinalizedOf[raw].text)

\* the endpoint branch of stream_push whose transcription returned raw
FinalPass(sid, sess, raw) ==
    FinalResult(sid, sess, FinalizedOf[raw], CommittedText(FinalizedOf[raw]))

\* the answer of a push whose transcription succeeded with pass result r
PushReply(r, samples, out) ==
    [sess |-> r.sess, resp |-> _ok(r.result), eng |-> EngineCall(samples, out)]

\* the answer of a push whose transcription raised: the exception is caught by
\* handle and reported, the session stays as push_audio left it
PushFailed(sess, samples, out) ==
    [sess |-> sess, resp |-> _err(out.error), eng |-> EngineCall(samples, out)]

\* stream_push after push_audio left the session sess and chose branch
PushBranches(sid, sess, branch, out) ==
    CASE branch = "too_short" ->
           [ sess |-> [sess EXCEPT !.last_partial_samples = sess.buffer_size],
             resp |-> _ok(PushNone(sid, "false", sess.speech_frames, sess.silence_frames)),
             eng  |-> NoEngineCall ]
      [] branch = "partial" ->
           IF out.ok
           THEN PushReply(PartialPass(sid, sess, out.text), WindowSamples(sess), out)
           ELSE PushFailed(sess, WindowSamples(sess), out)
      [] branch = "final" ->
           IF out.ok
           THEN PushReply(FinalPass(sid, sess, out.text), sess.buffer_size, out)
           ELSE PushFailed(sess, sess.buffer_size, out)
      [] OTHER ->
           [ sess |-> sess,
             resp |-> _ok(PushNone(sid, "false", sess.speech_frames, sess.silence_frames)),
             eng  |-> NoEngineCall ]

\* stream_push after push_audio returned p
AfterPushAudio(sid, p, out) ==
    PushBranches(sid, p.sess, PushBranch(p.sess, p.endpoint), out)

\* stream_push once the audio is decoded: the session afterwards, the response
\* and the engine call, for the engine outcome out (read only when invoked)
HandlePush(sid, sess0, n, flags, out) ==
    AfterPushAudio(sid, push_audio(sess0, n, flags), out)

\* the engine outcomes of a push after push_audio returned p
OutcomesAfterPushAudio(p) ==
    IF PushBranch(p.sess, p.endpoint) \in {"partial", "final"}
    THEN TranscribeOutcomes(p.sess)
    ELSE {NotInvoked}

\* the engine is invoked by a push exactly in the partial and the final branch
PushOutcomes(sess0, n, flags) == OutcomesAfterPushAudio(push_audio(sess0, n, flags))
-----------------------------------------------------------------------------
(* Requests                                                                 *)

NoPure == [fn |-> "none", input |-> <<>>, output |-> <<>>]

NoRequest == [method |-> "none", session_id |-> ""]

\* main before its first line: at the head of the loop, nothing read or written
LoopHead == [pc |-> "read", line |-> "none", written |-> 0]

\* jsp_mic_client before its input stream is opened: an empty queue, the stop flag
\* clear, no callback running, no chunk captured or dropped
MicStart ==
    [ q |-> <<>>, stop |-> FALSE, stream |-> "unopened", cb |-> "idle", x |-> 0,
      captured |-> 0, dropped |-> 0, taken |-> 0 ]

Init ==
    /\ sessions = <<>>
    /\ model_name = "None"
    /\ req = NoRequest
    /\ resp = _err("no request yet")
    /\ eng = NoEngineCall
    /\ pure = NoPure
    /\ io = LoopHead
    /\ mic = MicStart

\* mutant: no model counts as loaded, every stream_start loads
NeverLoaded(model) == FALSE

\* WhisperEngine.is_loaded
is_loaded(model) == model_name # "None" /\ model_name = model

\* what a stream_start finds registered under sid: whether there is a session,
\* and its buffer size and cached text
Registered(sid) ==
    IF sid \in DOMAIN sessions
    THEN [found |-> TRUE, buffer_size |-> sessions[sid].buffer_size,
          segments_text |-> sessions[sid].segments_text]
    ELSE [found |-> FALSE, buffer_size |-> 0, segments_text |-> <<>>]

\* mutant: a session registered under the id is kept, as by dict.setdefault
StreamStartKeepsExisting(sid, model, sample_rate_hz, partial_interval_ms, max_partial_context_s, min_partial_speech_ms, end_silence_ms, load_ok) ==
    /\ req' = [method |-> "stream_start", session_id |-> sid, model |-> model,
               load_ok |-> load_ok, replaced |-> Registered(sid)]
    /\ eng' = NoEngineCall
    /\ UNCHANGED pure
    /\ IF model = ""
       THEN /\ resp' = _err("Missing model")
            /\ UNCHANGED <<sessions, model_name>>
       ELSE IF ~is_loaded(model) /\ ~load_ok
       THEN /\ resp' = _err("Model load failed: mlx-whisper is not installed")
            /\ UNCHANGED <<sessions, model_name>>
       ELSE /\ model_name' = model
            /\ sessions' = sessions
                           @@ (sid :> NewSession(sample_rate_hz, partial_interval_ms,
                                                 max_partial_context_s,
                                                 min_partial_speech_ms, end_silence_ms))
            /\ resp' = _ok([session_id |-> sid, model |-> model])

\* stream_start: load_ok tells whether mlx_whisper can be imported when the model
\* has to be loaded; req keeps it, and what was registered under the id, next to
\* the parameters of the request
StreamStart(sid, model, sample_rate_hz, partial_interval_ms, max_partial_context_s, min_partial_speech_ms, end_silence_ms, load_ok) ==
    /\ req' = [method |-> "stream_start", session_id |-> sid, model |-> model,
               load_ok |-> load_ok, replaced |-> Registered(sid)]
    /\ eng' = NoEngineCall
    /\ UNCHANGED pure
    /\ IF model = ""
       THEN /\ resp' = _err("Missing model")
            /\ UNCHANGED <<sessions, model_name>>
       ELSE IF ~is_loaded(model) /\ ~load_ok
       THEN /\ resp' = _err("Model load failed: mlx-whisper is not installed")
            /\ UNCHANGED <<sessions, model_name>>
       ELSE /\ model_name' = model
            /\ sessions' = (sid :> NewSession(sample_rate_hz, partial_interval_ms,
                                              max_partial_context_s, min_partial_speech_ms,
                                              end_silence_ms))
                           @@ sessions
            /\ resp' = _ok([session_id |-> sid, model |-> model])

\* mutant: the request is checked after the session has taken the audio
StreamPushCheckedLate(sid, format, audio) ==
    /\ sid \notin DOMAIN sessions \/ format # "pcm_s16le_b64" \/ audio # "pcm"
    /\ req' = [method |-> "stream_push", session_id |-> sid, format |-> format,
               audio |-> audio, samples |-> 0, flags |-> <<>>]
    /\ resp' = _err("rejected")
    /\ eng' = NoEngineCall
    /\ sessions' = IF sid \in DOMAIN sessions
                   THEN [sessions EXCEPT ![sid].buffer_size = 0,
                                         ![sid].last_partial_samples = 0]
                   ELSE sessions
    /\ UNCHANGED <<model_name, pure>>

\* stream_push rejected before any audio is accepted: unknown session id, wrong
\* format, missing audio_b64, or audio_b64 that does not decode to int16 samples
StreamPushRejected(sid, format, audio) ==
    /\ sid \notin DOMAIN sessions \/ format # "pcm_s16le_b64" \/ audio # "pcm"
    /\ req' = [method |-> "stream_push", session_id |-> sid, format |-> format,
               audio |-> audio, samples |-> 0, flags |-> <<>>]
    /\ resp' = IF sid = "" \/ sid \notin DOMAIN sessions THEN _err("Unknown session_id")
               ELSE IF format # "pcm_s16le_b64"
                    THEN _err("Unsupported format (expected pcm_s16le_b64)")
               ELSE IF audio = "missing" THEN _err("Missing audio_b64")
               ELSE _err("audio_b64 cannot be decoded")
    /\ eng' = NoEngineCall
    /\ UNCHANGED <<sessions, model_name, pure>>

\* stream_push of n samples whose whole frames the VAD classifies as flags
StreamPush(sid, n, flags) ==
    /\ sid \in DOMAIN sessions
    /\ sessions[sid].buffer_size + n <= MaxBufferSamples
    /\ Len(flags) = NumFrames(sessions[sid], n)
    /\ req' = [method |-> "stream_push", session_id |-> sid, format |-> "pcm_s16le_b64",
               audio |-> "pcm", samples |-> n, flags |-> flags]
    /\ \E out \in PushOutcomes(sessions[sid], n, flags) :
          \E h \in {HandlePush(sid, sessions[sid], n, flags, out)} :
             /\ sessions' = [sessions EXCEPT ![sid] = h.sess]
             /\ resp' = h.resp
             /\ eng' = h.eng
    /\ UNCHANGED <<model_name, pure>>

\* stream_finalize of a registered session
FinalizeOutcomes(sess) ==
    IF sess.buffer_size > 0 THEN TranscribeOutcomes(sess) ELSE {NotInvoked}

\* the text stream_finalize finalizes: the transcription of the buffer when it
\* holds audio, otherwise the cached segments_text (or "")
FinalizeText(sess, out) ==
    IF sess.buffer_size > 0 THEN out.text
    ELSE IF sess.segments_text # <<>> THEN sess.segments_text
    ELSE <<>>

\* the answer of a stream_finalize whose finalized transcript is f
FinalizeReply(sid, sess, out, f) ==
    [ resp |-> _ok([session_id |-> sid, text |-> f.text, actions |-> f.actions]),
      eng  |-> IF sess.buffer_size > 0
               THEN EngineCall(sess.buffer_size, out)
               ELSE NoEngineCall ]

\* mutant: an empty buffer is answered with an empty text, the cache is not read
HandleFinalizeNoCache(sid, sess, out) ==
    IF sess.buffer_size > 0 /\ ~out.ok
    THEN [resp |-> _err(out.error), eng |-> EngineCall(sess.buffer_size, out)]
    ELSE FinalizeReply(sid, sess, out,
                       FinalizedOf[IF sess.buffer_size > 0 THEN out.text ELSE <<>>])

HandleFinalize(sid, sess, out) ==
    IF sess.buffer_size > 0 /\ ~out.ok
    THEN [resp |-> _err(out.error), eng |-> EngineCall(sess.buffer_size, out)]
    ELSE FinalizeReply(sid, sess, out, FinalizedOf[FinalizeText(sess, out)])

\* mutant: the session is removed only when the finalize succeeds
StreamFinalizeKeepsFailed(sid) ==
    /\ req' = [method |-> "stream_finalize", session_id |-> sid]
    /\ UNCHANGED <<model_name, pure>>
    /\ IF sid = "" \/ sid \notin DOMAIN sessions
       THEN /\ resp' = _err("Unknown session_id")
            /\ eng' = NoEngineCall
            /\ UNCHANGED sessions
       ELSE \E out \in FinalizeOutcomes(sessions[sid]) :
               \E h \in {HandleFinalize(sid, sessions[sid], out)} :
                  /\ resp' = h.resp
                  /\ eng' = h.eng
                  /\ sessions' = IF h.resp.ok
                                 THEN [s \in DOMAIN sessions \ {sid} |-> sessions[s]]
                                 ELSE sessions

\* mutant: a successful lookup of sid empties the whole registry
StreamFinalizeDropsAll(sid) ==
    /\ req' = [method |-> "stream_finalize", session_id |-> sid]
    /\ UNCHANGED <<model_name, pure>>
    /\ IF sid = "" \/ sid \notin DOMAIN sessions
       THEN /\ resp' = _err("Unknown session_id")
            /\ eng' = NoEngineCall
            /\ UNCHANGED sessions
       ELSE /\ sessions' = <<>>
            /\ \E out \in FinalizeOutcomes(sessions[sid]) :
                  \E h \in {HandleFinalize(sid, sessions[sid], out)} :
                     resp' = h.resp /\ eng' = h.eng

StreamFinalize(sid) ==
    /\ req' = [method |-> "stream_finalize", session_id |-> sid]
    /\ UNCHANGED <<model_name, pure>>
    /\ IF sid = "" \/ sid \notin DOMAIN sessions
       THEN /\ resp' = _err("Unknown session_id")
            /\ eng' = NoEngineCall
            /\ UNCHANGED sessions
       ELSE /\ sessions' = [s \in DOMAIN sessions \ {sid} |-> sessions[s]]
            /\ \E out \in FinalizeOutcomes(sessions[sid]) :
                  \E h \in {HandleFinalize(sid, sessions[sid], out)} :
                     resp' = h.resp /\ eng' = h.eng

\* the VAD verdicts a push of n samples can get
FlagSeqs(sess, n) == [1..NumFrames(sess, n) -> BOOLEAN]

\* the stream_start parameters the model draws from
StartConfigs ==
    [ sample_rate_hz : SampleRates, partial_interval_ms : PartialIntervalMs,
      max_partial_context_s : MaxPartialContextS,
      min_partial_speech_ms : MinPartialSpeechMs, end_silence_ms : EndSilenceMs ]

\* the ways a stream_push request can be unacceptable
BadPushes ==
    { [format |-> "wav", audio |-> "pcm"],
      [format |-> "pcm_s16le_b64", audio |-> "missing"],
      [format |-> "pcm_s16le_b64", audio |-> "undecodable"] }

\* a step of Spec or SpecTrigger is a whole iteration of main's loop on a request
\* line: the line is read, handled and answered, and main is back at the loop head
Next ==
    \/ \E sid \in SessionIds, model \in Models, c \in StartConfigs :
          \E load_ok \in IF is_loaded(model) THEN {TRUE} ELSE BOOLEAN :
             /\ StreamStart(sid, model, c.sample_rate_hz, c.partial_interval_ms,
                            c.max_partial_context_s, c.min_partial_speech_ms,
                            c.end_silence_ms, load_ok)
             /\ UNCHANGED <<io, mic>>
    \/ \E sid \in SessionIds, c \in {CHOOSE x \in StartConfigs : TRUE} :
          /\ StreamStart(sid, "", c.sample_rate_hz, c.partial_interval_ms,
                         c.max_partial_context_s, c.min_partial_speech_ms,
                         c.end_silence_ms, TRUE)
          /\ UNCHANGED <<io, mic>>
    \/ \E sid \in SessionIds, b \in BadPushes :
          StreamPushRejected(sid, b.format, b.audio) /\ UNCHANGED <<io, mic>>
    \/ \E sid \in (SessionIds \cup {""}) \ DOMAIN sessions :
          StreamPushRejected(sid, "pcm_s16le_b64", "pcm") /\ UNCHANGED <<io, mic>>
    \/ \E sid \in DOMAIN sessions, n \in PushSizes :
          \E flags \in FlagSeqs(sessions[sid], n) :
             StreamPush(sid, n, flags) /\ UNCHANGED <<io, mic>>
    \/ \E sid \in SessionIds \cup {""} : StreamFinalize(sid) /\ UNCHANGED <<io, mic>>

Spec == Init /\ [][Next]_vars

-----------------------------------------------------------------------------
(* The command interpreter alone                                            *)

\* the longest text given to _command_actions
MaxTextLen == 5

\* the characters of those texts: U+6362 U+884C ("huanhang"), space, "U", "n", "d",
\* "o", and the ideographic full stop U+3002
CommandAlphabet == {25442, 34892, 32, 85, 110, 100, 111, 12290}

CommandInputs == UNION {[1..n -> CommandAlphabet] : n \in 0..MaxTextLen}

\* a text waiting to be interpreted
InitCommand ==
    /\ sessions = <<>>
    /\ model_name = "None"
    /\ req = NoRequest
    /\ resp = _err("no request yet")
    /\ eng = NoEngineCall
    /\ pure \in {[fn |-> "input", input |-> text, output |-> NotACommand] :
                    text \in CommandInputs}
    /\ io = LoopHead
    /\ mic = MicStart

\* _command_actions applied to the text
ApplyCommandActions ==
    /\ pure.fn = "input"
    /\ pure' = [fn |-> "_command_actions", input |-> pure.input,
                output |-> _command_actions(pure.input)]
    /\ UNCHANGED <<sessions, model_name, req, resp, eng, io, mic>>

NextCommand == ApplyCommandActions

SpecCommand == InitCommand /\ [][NextCommand]_vars
-----------------------------------------------------------------------------
(* Properties                                                               *)

\* the step handles a stream_push that passed validation for the registered session sid
AcceptedPush(sid) ==
    /\ req'.method = "stream_push"
    /\ req'.session_id = sid
    /\ sid \in DOMAIN sessions
    /\ req'.format = "pcm_s16le_b64"
    /\ req'.audio = "pcm"

\* the step is an accepted push whose partial transcription pass fired and returned text
PartialPassStep(sid) ==
    /\ AcceptedPush(sid)
    /\ eng'.calls = 1
    /\ eng'.out.ok
    /\ resp'.ok
    /\ resp'.result.endpoint = "false"

\* the step handles a stream_finalize for the registered session sid
FinalizeStep(sid) ==
    /\ req'.method = "stream_finalize"
    /\ req'.session_id = sid
    /\ sid \in DOMAIN sessions

\* a is a literal prefix of b
IsPrefix(a, b) == Len(a) <= Len(b) /\ \A i \in 1..Len(a) : a[i] = b[i]

\* the length of the longest common prefix of a and b
LongestCommonPrefixLen(a, b) ==
    CHOOSE k \in 0..Min(Len(a), Len(b)) :
        /\ \A i \in 1..k : a[i] = b[i]
        /\ \A m \in (k + 1)..Min(Len(a), Len(b)) : \E i \in 1..m : a[i] # b[i]

\* C1: diff reconstruction law.  For every stream_push response of kind partial or
\* final, with prev the session's last emitted text just before the push and next
\* the response text: delta_from is the longest-common-prefix length of prev and
\* next, prev[:delta_from] + delta_insert = next, and delta_delete =
\* len(prev) - delta_from.
C1_DiffReconstruction ==
    [][\A sid \in SessionIds :
          (AcceptedPush(sid) /\ resp'.ok /\ resp'.result.kind \in {"partial", "final"})
          => LET prev == sessions[sid].last_emitted_text
                 next == resp'.result.text
                 r == resp'.result
             IN  /\ r.delta_from = LongestCommonPrefixLen(prev, next)
                 /\ SubSeq(prev, 1, r.delta_from) \o r.delta_insert = next
                 /\ r.delta_delete = Len(prev) - r.delta_from]_vars

\* C1 witness: a partial or final response that keeps a non-empty common prefix,
\* deletes a tail and inserts a different one
C1_Witness ==
    /\ req.method = "stream_push"
    /\ resp.ok
    /\ resp.result.kind \in {"partial", "final"}
    /\ resp.result.delta_from > 0
    /\ resp.result.delta_delete > 0
    /\ resp.result.delta_insert # <<>>

\* C2: prefix monotonicity.  Over the stream_push calls of one utterance (pushes
\* that do not return an endpoint) the length of the committed prefix never
\* decreases, and in every reachable state the committed prefix is a literal
\* prefix of the session's last emitted text.
C2_PrefixMonotonic ==
    /\ [](\A sid \in DOMAIN sessions :
             IsPrefix(sessions[sid].committed_prefix, sessions[sid].last_emitted_text))
    /\ [][\A sid \in SessionIds :
             (AcceptedPush(sid) /\ ~(resp'.ok /\ resp'.result.endpoint = "true"))
             => Len(sessions'[sid].committed_prefix) >= Len(sessions[sid].committed_prefix)]_vars

\* C2 witness: a shorter boundary candidate ("ni hao,") has repeated after the lock of
\* "ni hao, shijie." in the same utterance, and the committed prefix kept its length
C2_Witness ==
    /\ req.method = "stream_push"
    /\ resp.ok
    /\ resp.result.endpoint = "false"
    /\ eng.calls = 1
    /\ \E sid \in DOMAIN sessions :
          /\ sessions[sid].committed_prefix = <<20320, 22909, 65292, 19990, 30028, 12290>>
          /\ sessions[sid].last_prefix_candidate = <<20320, 22909, 65292>>
          /\ sessions[sid].prefix_streak >= 2

\* C3 as stated: once a committed prefix is locked in, it is a literal prefix of every
\* full hypothesis the engine returns in later partial passes of the utterance.
C3_HypothesisExtendsCommitted ==
    [][\A sid \in SessionIds :
          (PartialPassStep(sid) /\ sessions[sid].committed_prefix # <<>>)
          => IsPrefix(sessions[sid].committed_prefix, eng'.out.text)]_vars

\* C3 amended: once a committed prefix is locked in, it is a literal prefix of the
\* visible text (stable_prefix + unstable_suffix) every later partial pass of the
\* utterance computes from a non-empty hypothesis, and of the text that pass leaves
\* as last emitted, whatever the engine returned.
C3_VisibleTextExtendsCommitted ==
    [][\A sid \in SessionIds :
          (PartialPassStep(sid) /\ sessions[sid].committed_prefix # <<>>
              /\ eng'.out.text # <<>>)
          => /\ IsPrefix(sessions[sid].committed_prefix,
                         resp'.result.stable_prefix \o resp'.result.unstable_suffix)
             /\ IsPrefix(sessions[sid].committed_prefix, sessions'[sid].last_emitted_text)]_vars

\* C3 witness: a partial pass after the lock whose hypothesis does not extend the
\* committed prefix, while the emitted text does
C3_Witness ==
    /\ req.method = "stream_push"
    /\ resp.ok
    /\ resp.result.kind = "partial"
    /\ eng.calls = 1
    /\ resp.result.stable_prefix # <<>>
    /\ ~IsPrefix(resp.result.stable_prefix, eng.out.text)
    /\ IsPrefix(resp.result.stable_prefix, resp.result.text)

\* ceil(s / f) for positive f
CeilDiv(s, f) == (s + f - 1) \div f

\* the length of the run of consecutive silent frames ending at frame i of a push
\* with verdicts flags, for a session that had silence_frames silent frames before
SilentRunAt(silence_frames, flags, i) ==
    IF \E j \in 1..i : flags[j]
    THEN i - (CHOOSE j \in 1..i : flags[j] /\ \A k \in (j + 1)..i : ~flags[k])
    ELSE silence_frames + i

\* C4 as stated: endpoint timing.  endpoint=true is returned by the push containing
\* the first analyzed frame at which the run of consecutive silent frames reaches
\* ceil(end_silence_ms / frame_ms) after at least one speech frame of the utterance,
\* and by no other push; no endpoint is declared while speech_frames is 0.
C4_EndpointTiming ==
    [][\A sid \in SessionIds :
          AcceptedPush(sid)
          => LET s == sessions[sid]
                 flags == req'.flags
                 need == CeilDiv(s.end_silence_ms, s.frame_ms)
                 reached == \E i \in 1..Len(flags) :
                               /\ ~flags[i]
                               /\ s.speech_frames > 0 \/ \E j \in 1..(i - 1) : flags[j]
                               /\ SilentRunAt(s.silence_frames, flags, i) = need
                 declared == resp'.ok /\ resp'.result.endpoint = "true"
             IN  /\ declared <=> reached
                 /\ declared => resp'.result.speech_frames > 0]_vars

\* the longest prefix of text that ends with a boundary character
LongestBoundaryPrefix(text) ==
    LET ends == {i \in 1..Len(text) : text[i] \in BoundaryChars}
    IN  IF ends = {} THEN <<>>
        ELSE SubSeq(text, 1, CHOOSE i \in ends : \A j \in ends : j <= i)

\* the stabilization fields of a session
Stabilization(sess) ==
    <<sess.committed_prefix, sess.last_prefix_candidate, sess.prefix_streak>>

\* C5: stabilization lock rule.  In a partial pass the committed prefix is replaced
\* by the boundary candidate if and only if the candidate is non-empty, its repeat
\* streak has reached 2, it is strictly longer than the committed prefix, and the
\* committed prefix is a literal prefix of it; otherwise the committed prefix is
\* unchanged.  For the hypotheses "ni hao", "ni hao,", "ni hao," the committed
\* prefix is empty after the first two passes and "ni hao," after the third.
C5_LockRule ==
    [][\A sid \in SessionIds :
          PartialPassStep(sid)
          => LET text == eng'.out.text
                 cand == LongestBoundaryPrefix(text)
                 old == sessions[sid].committed_prefix
                 new == sessions'[sid].committed_prefix
                 nihao == <<20320, 22909>>
                 nihaoComma == <<20320, 22909, 65292>>
             IN  /\ new = IF /\ cand # <<>>
                             /\ sessions'[sid].prefix_streak >= 2
                             /\ Len(cand) > Len(old)
                             /\ IsPrefix(old, cand)
                          THEN cand
                          ELSE old
                 /\ (text = nihao /\ Stabilization(sessions[sid]) = <<<<>>, <<>>, 0>>)
                    => Stabilization(sessions'[sid]) = <<<<>>, <<>>, 0>>
                 /\ (text = nihaoComma /\ Stabilization(sessions[sid]) = <<<<>>, <<>>, 0>>)
                    => Stabilization(sessions'[sid]) = <<<<>>, nihaoComma, 1>>
                 /\ (text = nihaoComma
                        /\ Stabilization(sessions[sid]) = <<<<>>, nihaoComma, 1>>)
                    => Stabilization(sessions'[sid]) = <<nihaoComma, nihaoComma, 2>>]_vars

\* C5 witness: the pass that repeats the candidate "ni hao," has locked it
C5_Witness ==
    /\ req.method = "stream_push"
    /\ resp.ok
    /\ eng.calls = 1
    /\ eng.out.text = <<20320, 22909, 65292>>
    /\ resp.result.stable_prefix = <<20320, 22909, 65292>>
    /\ \E sid \in DOMAIN sessions :
          /\ sessions[sid].prefix_streak = 2
          /\ sessions[sid].committed_prefix = <<20320, 22909, 65292>>

\* C6 as stated: a failed transcription during stream_push returns an error and
\* leaves the session exactly as it was before that push.
C6_FailedPushLeavesSession ==
    [][\A sid \in SessionIds :
          (AcceptedPush(sid) /\ eng'.calls = 1 /\ ~eng'.out.ok)
          => (~resp'.ok /\ sessions'[sid] = sessions[sid])]_vars

\* C7: stream_finalize on a registered session removes it from the registry whether
\* or not its transcription succeeds; stream_push and stream_finalize with an
\* unregistered id return "Unknown session_id" and register nothing, and only a
\* stream_start with that id registers it again.
C7_FinalizeRemoves ==
    [][\A sid \in SessionIds :
          /\ FinalizeStep(sid) => sid \notin DOMAIN sessions'
          /\ (sid \notin DOMAIN sessions
                 /\ req'.session_id = sid
                 /\ req'.method \in {"stream_push", "stream_finalize"})
             => (resp' = _err("Unknown session_id") /\ sessions' = sessions)
          /\ (sid \notin DOMAIN sessions /\ sid \in DOMAIN sessions')
             => (req'.method = "stream_start" /\ req'.session_id = sid /\ resp'.ok)]_vars

\* C7 witness: a stream_finalize whose transcription failed has removed the session
C7_Witness ==
    /\ req.method = "stream_finalize"
    /\ ~resp.ok
    /\ eng.calls = 1
    /\ ~eng.out.ok
    /\ req.session_id \notin DOMAIN sessions

\* C8: stream_finalize decides by the buffer.  A non-empty buffer is transcribed
\* exactly once, whole; with an empty buffer the engine is not invoked and the
\* cached last finalized text is answered (empty text and no actions when nothing
\* was cached).  After a push that returned an endpoint the buffer is empty, so a
\* finalize issued next answers from the cache.
C8_FinalizeByBuffer ==
    /\ [](\A sid \in DOMAIN sessions :
             (req.method = "stream_push" /\ req.session_id = sid /\ resp.ok
                 /\ resp.result.endpoint = "true")
             => sessions[sid].buffer_size = 0)
    /\ [][\A sid \in SessionIds :
             FinalizeStep(sid)
             => IF sessions[sid].buffer_size > 0
                THEN /\ eng'.calls = 1
                     /\ eng'.samples = sessions[sid].buffer_size
                     /\ resp'.ok = eng'.out.ok
                ELSE /\ eng'.calls = 0
                     /\ resp'.ok
                     /\ resp'.result.text = Finalized(sessions[sid].segments_text).text
                     /\ resp'.result.actions = Finalized(sessions[sid].segments_text).actions
                     /\ sessions[sid].segments_text = <<>>
                        => (resp'.result.text = <<>> /\ resp'.result.actions = <<>>)]_vars

\* C8 witness: a stream_finalize issued right after an endpoint push has answered
\* a non-empty text without invoking the engine
C8_Witness ==
    /\ req.method = "stream_finalize"
    /\ resp.ok
    /\ eng.calls = 0
    /\ resp.result.text # <<>>

\* C9: command vs. insert disjointness.  In every final stream_push response either
\* the transcript is a command, actions is the command table's action list and
\* committed_text is empty, or it is no command, committed_text is the normalized
\* text and actions is one insert of it (none when it is empty).  The transcript
\* "huanhang" (U+6362 U+884C) gives actions [insert("\n")] and committed_text "".
C9_CommandOrInsert ==
    (req.method = "stream_push" /\ resp.ok /\ resp.result.kind = "final")
    => LET r == resp.result
           spaced == _normalize_mixed_spacing(eng.out.text)
           key == Lower(_clean_command_text(spaced))
           normalized == _apply_tone_punctuation(spaced)
           suppressed == key # <<>> /\ _command_key(key) \in _SUPPRESSED_KEYS
           command == suppressed \/ key \in DOMAIN CommandTable
           inserts_text == \E i \in 1..Len(r.actions) :
                              r.actions[i] = [type |-> "insert", text |-> r.text]
       IN  /\ \/ /\ command
                 /\ r.actions = IF suppressed THEN <<>> ELSE CommandTable[key]
                 /\ r.committed_text = <<>>
                 /\ ~inserts_text
              \/ /\ ~command
                 /\ r.text = normalized
                 /\ r.committed_text = normalized
                 /\ r.actions = IF normalized = <<>>
                                THEN <<>>
                                ELSE <<[type |-> "insert", text |-> normalized]>>
           /\ eng.out.text = <<25442, 34892>>
              => (r.actions = <<[type |-> "insert", text |-> <<10>>]>>
                  /\ r.committed_text = <<>>)

\* C9 witness: a final response for the transcript "huanhang"
C9_Witness ==
    /\ req.method = "stream_push"
    /\ resp.ok
    /\ resp.result.kind = "final"
    /\ eng.out.text = <<25442, 34892>>

\* text is pre + core + post with pre and post made of the characters of chars,
\* and core is phrase up to the case of its letters
IsPhraseWithin(text, phrase, chars) ==
    /\ Len(phrase) <= Len(text)
    /\ \E i \in 1..(Len(text) - Len(phrase) + 1) :
          /\ \A k \in 1..Len(phrase) : LowerChar(text[i + k - 1]) = phrase[k]
          /\ \A k \in 1..(i - 1) : text[k] \in chars
          /\ \A k \in (i + Len(phrase))..Len(text) : text[k] \in chars

\* C10 as stated: a text that differs from a command phrase only by case, surrounding
\* punctuation, or internal whitespace and punctuation (a text with the phrase's
\* key) is recognized as that command.
C10_KeyMatchesCommand ==
    pure.fn = "_command_actions"
    => \A phrase \in DOMAIN CommandTable :
          _command_key(pure.input) = _command_key(phrase)
          => pure.output = Matched(CommandTable[phrase])

\* C10 amended: the table lookup is made with the text trimmed of surrounding
\* whitespace and punctuation and lower-cased; internal whitespace and punctuation
\* are kept (they are stripped only for the suppressed-phrase test).  A text that is
\* a command phrase up to case and surrounding whitespace or punctuation is
\* recognized as that command, and no other text is recognized as a table command.
C10_TrimmedLowerMatchesCommand ==
    pure.fn = "_command_actions"
    => /\ \A phrase \in DOMAIN CommandTable :
             IsPhraseWithin(pure.input, phrase, CleanStripChars)
             => pure.output = Matched(CommandTable[phrase])
       /\ pure.output.is_command
          => \/ \E phrase \in DOMAIN CommandTable :
                   IsPhraseWithin(pure.input, phrase, PyWhitespace \cup CleanStripChars)
             \/ pure.output.actions = <<>>

\* C10 witness: "Undo" followed by an ideographic full stop is recognized as undo
C10_Witness ==
    /\ pure.fn = "_command_actions"
    /\ pure.input = <<85, 110, 100, 111, 12290>>
    /\ pure.output = Matched(<<[type |-> "system_undo"]>>)


\* the step is an accepted push that reached an endpoint and whose transcription
\* returned a text
EndpointStep(sid) ==
    /\ AcceptedPush(sid)
    /\ resp'.ok
    /\ resp'.result.endpoint = "true"
    /\ eng'.calls = 1
    /\ eng'.out.ok

\* the transcript raw, as the endpoint branch hands it to the command interpreter,
\* matches the suppressed-phrase set
IsSuppressedTranscript(raw) ==
    /\ _clean_command_text(_normalize_mixed_spacing(raw)) # <<>>
    /\ _command_key(_normalize_mixed_spacing(raw)) \in _SUPPRESSED_KEYS

\* C11: a transcript matching the suppressed-phrase set is a command with an empty
\* action list, which differs from "not a command": at an endpoint it gives
\* kind=final, actions [] and committed_text "" (nothing is inserted), whereas a
\* non-empty transcript that matches nothing (not a command) gives exactly one
\* insert action carrying the emitted text.
C11_SuppressedIsEmptyCommand ==
    [][\A sid \in SessionIds :
          EndpointStep(sid)
          => LET raw == eng'.out.text
                 spaced == _normalize_mixed_spacing(raw)
                 r == resp'.result
             IN  /\ IsSuppressedTranscript(raw)
                    => /\ r.kind = "final"
                       /\ r.actions = <<>>
                       /\ r.committed_text = <<>>
                       /\ _command_actions(spaced) # NotACommand
                 /\ (raw # <<>> /\ _command_actions(spaced) = NotACommand)
                    => /\ r.kind = "final"
                       /\ r.text # <<>>
                       /\ r.actions = <<[type |-> "insert", text |-> r.text]>>
                       /\ r.committed_text = r.text]_vars

\* C11 witness: an endpoint whose transcript is the echoed prompt phrase; the
\* response is final, reports the phrase as text, and carries no action and no
\* committed text
C11_Witness ==
    /\ req.method = "stream_push"
    /\ resp.ok
    /\ resp.result.endpoint = "true"
    /\ resp.result.kind = "final"
    /\ eng.calls = 1
    /\ eng.out.ok
    /\ IsSuppressedTranscript(eng.out.text)
    /\ resp.result.text = eng.out.text
    /\ resp.result.actions = <<>>
    /\ resp.result.committed_text = <<>>

\* C12: two-stage action protocol.  Every stream_push response of kind partial
\* carries exactly one action, set_composition(text) with the response text; every
\* response of kind final carries the commit actions of its transcript unchanged;
\* every response of kind none carries an empty action list.
C12_TwoStageActions ==
    (req.method = "stream_push" /\ resp.ok)
    => /\ resp.result.kind \in {"partial", "final", "none"}
       /\ resp.result.kind = "partial"
          => resp.result.actions
             = <<[type |-> "set_composition", text |-> resp.result.text]>>
       /\ resp.result.kind = "final"
          => /\ eng.calls = 1
             /\ resp.result.actions = FinalizedOf[eng.out.text].actions
       /\ resp.result.kind = "none" => resp.result.actions = <<>>

\* C12 witness: a partial response with a non-empty text, carried by a single
\* set_composition action
C12_Witness ==
    /\ req.method = "stream_push"
    /\ resp.ok
    /\ resp.result.kind = "partial"
    /\ resp.result.text # <<>>
    /\ Len(resp.result.actions) = 1
    /\ resp.result.actions[1].type = "set_composition"
    /\ resp.result.actions[1].text = resp.result.text

\* C13: partial emission rule.  Whenever a partial pass produces a non-empty raw
\* hypothesis, the visible text is committed_prefix + raw[len(committed_prefix):],
\* reported as stable_prefix + unstable_suffix; the response has kind=partial if and
\* only if the visible text differs from the session's last emitted text, and then
\* last_emitted_text becomes the visible text; otherwise the response has kind=none
\* and last_emitted_text is unchanged.
C13_PartialEmission ==
    [][\A sid \in SessionIds :
          (PartialPassStep(sid) /\ eng'.out.text # <<>>)
          => LET raw == eng'.out.text
                 committed == sessions'[sid].committed_prefix
                 visible == committed \o SubSeq(raw, Len(committed) + 1, Len(raw))
                 r == resp'.result
             IN  /\ r.stable_prefix = committed
                 /\ r.stable_prefix \o r.unstable_suffix = visible
                 /\ r.kind = "partial" <=> visible # sessions[sid].last_emitted_text
                 /\ r.kind = "partial"
                    => /\ r.text = visible
                       /\ sessions'[sid].last_emitted_text = visible
                 /\ r.kind # "partial"
                    => /\ r.kind = "none"
                       /\ r.text = <<>>
                       /\ sessions'[sid].last_emitted_text
                          = sessions[sid].last_emitted_text]_vars

\* C13 witness: a partial pass whose non-empty hypothesis gives the text already
\* shown (a committed prefix and a suffix), so nothing is emitted
C13_Witness ==
    /\ req.method = "stream_push"
    /\ resp.ok
    /\ resp.result.endpoint = "false"
    /\ eng.calls = 1
    /\ eng.out.ok
    /\ eng.out.text # <<>>
    /\ resp.result.kind = "none"
    /\ resp.result.stable_prefix # <<>>
    /\ resp.result.unstable_suffix # <<>>
    /\ \E sid \in DOMAIN sessions :
          /\ sid = req.session_id
          /\ sessions[sid].last_emitted_text
             = resp.result.stable_prefix \o resp.result.unstable_suffix

\* the step is an accepted push answered successfully with endpoint=true
EndpointReturned(sid) ==
    /\ AcceptedPush(sid)
    /\ resp'.ok
    /\ resp'.result.endpoint = "true"

\* every field of the current utterance is at its reset value
UtteranceReset(sess) ==
    /\ sess.buffer_size = 0
    /\ sess.speech_frames = 0
    /\ sess.silence_frames = 0
    /\ sess.last_partial_samples = 0
    /\ sess.prefix_streak = 0
    /\ sess.committed_prefix = <<>>
    /\ sess.last_prefix_candidate = <<>>

\* C14: the endpoint reset is atomic.  Immediately after any stream_push that
\* returns endpoint=true successfully, the session's sample buffer is empty,
\* speech_frames, silence_frames, last_partial_samples and prefix_streak are 0 and
\* committed_prefix and last_prefix_candidate are empty; and no reachable state
\* has only some of these reset: a session whose buffer is empty has all of them
\* at their reset values.
C14_EndpointResetAtomic ==
    /\ [][\A sid \in SessionIds :
             EndpointReturned(sid) => UtteranceReset(sessions'[sid])]_vars
    /\ [](\A sid \in DOMAIN sessions :
             sessions[sid].buffer_size = 0 => UtteranceReset(sessions[sid]))

\* C14 witness: an endpoint was returned for an utterance with enough speech for
\* partial passes and a non-empty final text, and the session is reset
C14_Witness ==
    /\ req.method = "stream_push"
    /\ resp.ok
    /\ resp.result.endpoint = "true"
    /\ resp.result.kind = "final"
    /\ resp.result.speech_frames >= 2
    /\ resp.result.text # <<>>
    /\ \E sid \in DOMAIN sessions : sid = req.session_id /\ UtteranceReset(sessions[sid])

\* C15 as stated: an endpoint returns the session to Idle while retaining
\* last_emitted_text: after an endpoint push the session's last emitted text equals
\* the text emitted by that push.
C15_EndpointRetainsEmitted ==
    [][\A sid \in SessionIds :
          EndpointReturned(sid)
          => sessions'[sid].last_emitted_text = resp'.result.text]_vars

\* C15 amended: an endpoint returns the session to Idle and clears
\* last_emitted_text with the rest of the utterance state; what is retained is the
\* cached finalized text: it becomes the text of the endpoint push when that text is
\* non-empty (else it keeps its value), and every later push of the session that is
\* not a successful endpoint carries it on unchanged.
C15_EndpointRetainsCacheOnly ==
    [][\A sid \in SessionIds :
          /\ EndpointReturned(sid)
             => /\ sessions'[sid].speech_frames = 0
                /\ sessions'[sid].last_emitted_text = <<>>
                /\ sessions'[sid].segments_text
                   = IF resp'.result.text # <<>> THEN resp'.result.text
                     ELSE sessions[sid].segments_text
          /\ (AcceptedPush(sid) /\ ~EndpointReturned(sid))
             => sessions'[sid].segments_text = sessions[sid].segments_text]_vars

\* C15 witness: the first partial response of the utterance after an endpoint: the
\* cache holds the earlier final text, and the delta is taken from the empty text
C15_Witness ==
    /\ req.method = "stream_push"
    /\ resp.ok
    /\ resp.result.kind = "partial"
    /\ resp.result.delta_from = 0
    /\ resp.result.delta_delete = 0
    /\ \E sid \in DOMAIN sessions :
          /\ sid = req.session_id
          /\ sessions[sid].segments_text # <<>>
          /\ sessions[sid].last_emitted_text = resp.result.text

\* the number of frames of flags classified as speech
SpeechCount(flags) == Cardinality({i \in 1..Len(flags) : flags[i]})

\* the number of silent frames after the last speech frame of flags
SilentTail(flags) ==
    Len(flags) - Max(0, CHOOSE k \in 0..Len(flags) :
                           /\ k > 0 => flags[k]
                           /\ \A i \in (k + 1)..Len(flags) : ~flags[i])

\* the counters push_audio reaches from sess over the frames flags
CountersAfter(sess, flags) ==
    [ speech_frames  |-> sess.speech_frames + SpeechCount(flags),
      silence_frames |-> IF SpeechCount(flags) > 0 THEN SilentTail(flags)
                         ELSE sess.silence_frames + Len(flags) ]

\* C16: counter discipline.  A speech frame sets silence_frames to 0 and adds 1 to
\* speech_frames; a silent frame adds 1 to silence_frames and leaves speech_frames
\* alone: so a push adds its speech frames to speech_frames and leaves
\* silence_frames at the length of the silent run that ends the frames seen so
\* far; the response reports these counters, and speech_frames never decreases
\* across pushes except by the endpoint reset.
C16_CounterDiscipline ==
    [][\A sid \in SessionIds :
          AcceptedPush(sid)
          => LET after == CountersAfter(sessions[sid], req'.flags)
             IN  /\ resp'.ok
                    => /\ resp'.result.speech_frames = after.speech_frames
                       /\ resp'.result.silence_frames = after.silence_frames
                 /\ ~EndpointReturned(sid)
                    => /\ sessions'[sid].speech_frames = after.speech_frames
                       /\ sessions'[sid].silence_frames = after.silence_frames
                       /\ sessions'[sid].speech_frames >= sessions[sid].speech_frames
                 /\ EndpointReturned(sid)
                    => /\ sessions'[sid].speech_frames = 0
                       /\ sessions'[sid].silence_frames = 0]_vars

\* C16 witness: a push answered with frames silent, then speech, then silent: the
\* speech frame cleared the silence counted before it, and the silent frames after
\* it are the whole of silence_frames
C16_Witness ==
    /\ req.method = "stream_push"
    /\ resp.ok
    /\ \E i, j \in 1..Len(req.flags) :
          /\ i < j /\ j < Len(req.flags)
          /\ ~req.flags[i]
          /\ req.flags[j]
          /\ \A k \in (j + 1)..Len(req.flags) : ~req.flags[k]
          /\ resp.result.silence_frames = Len(req.flags) - j
          /\ resp.result.speech_frames >= 1

\* C17: a stream_push on an Idle session (speech_frames = 0) whose frames are all
\* silence leaves the session Idle, never invokes the transcription engine, and
\* returns kind=none with endpoint=false, empty text and empty actions, however
\* many such pushes came before.
C17_IdleSilenceStaysIdle ==
    [][\A sid \in SessionIds :
          (/\ AcceptedPush(sid)
           /\ sessions[sid].speech_frames = 0
           /\ \A i \in 1..Len(req'.flags) : ~req'.flags[i])
          => /\ resp'.ok
             /\ resp'.result.kind = "none"
             /\ resp'.result.endpoint = "false"
             /\ resp'.result.final = "false"
             /\ resp'.result.text = <<>>
             /\ resp'.result.actions = <<>>
             /\ eng'.calls = 0
             /\ sessions'[sid].speech_frames = 0]_vars

\* C17 witness: silence-only pushes have brought an Idle session past the
\* end-of-utterance silence (3 frames, 90 ms >= end_silence_ms) with no endpoint
C17_Witness ==
    /\ req.method = "stream_push"
    /\ resp.ok
    /\ resp.result.kind = "none"
    /\ resp.result.endpoint = "false"
    /\ resp.result.speech_frames = 0
    /\ resp.result.silence_frames >= 3
    /\ Len(req.flags) >= 1
    /\ eng.calls = 0
    /\ \E sid \in DOMAIN sessions :
          /\ sid = req.session_id
          /\ sessions[sid].speech_frames = 0
          /\ sessions[sid].silence_frames * sessions[sid].frame_ms
             >= sessions[sid].end_silence_ms

-----------------------------------------------------------------------------
(* Sessions whose partial interval is longer than a push                    *)

\* stream_start parameters with a partial interval of 30 ms (480 samples at 16 kHz)
TriggerConfigs ==
    [ sample_rate_hz : {16000}, partial_interval_ms : {30},
      max_partial_context_s : MaxPartialContextS,
      min_partial_speech_ms : MinPartialSpeechMs, end_silence_ms : EndSilenceMs ]

\* pushes of half a frame and of one frame
TriggerPushSizes == {240, 480}

NextTrigger ==
    \/ \E sid \in SessionIds, model \in Models, c \in TriggerConfigs :
          /\ StreamStart(sid, model, c.sample_rate_hz, c.partial_interval_ms,
                         c.max_partial_context_s, c.min_partial_speech_ms,
                         c.end_silence_ms, TRUE)
          /\ UNCHANGED <<io, mic>>
    \/ \E sid \in DOMAIN sessions, n \in TriggerPushSizes :
          \E flags \in FlagSeqs(sessions[sid], n) :
             StreamPush(sid, n, flags) /\ UNCHANGED <<io, mic>>
    \/ \E sid \in SessionIds : StreamFinalize(sid) /\ UNCHANGED <<io, mic>>

SpecTrigger == Init /\ [][NextTrigger]_vars

\* C18: partial trigger conditions.  A partial transcription is invoked in a
\* stream_push only if the push did not declare an endpoint, speech_frames > 0,
\* speech_frames * frame_ms >= min_partial_speech_ms and buffer_size -
\* last_partial_samples >= interval_samples; when the minimum-speech guard fails,
\* no transcription happens, kind=none is returned and last_partial_samples is set
\* to the current buffer size.
C18_PartialTrigger ==
    [][\A sid \in SessionIds :
          AcceptedPush(sid)
          => LET endpoint == push_audio(sessions[sid], req'.samples, req'.flags).endpoint
                 before == sessions[sid]
                 after == sessions'[sid]
             IN  /\ (eng'.calls = 1 /\ ~endpoint)
                    => /\ after.speech_frames > 0
                       /\ after.speech_frames * after.frame_ms
                          >= after.min_partial_speech_ms
                       /\ after.buffer_size = before.buffer_size + req'.samples
                       /\ after.buffer_size - before.last_partial_samples
                          >= (after.sample_rate_hz * after.partial_interval_ms) \div 1000
                 /\ (eng'.calls = 1 /\ endpoint) => ~(resp'.ok /\ resp'.result.kind = "partial")
                 /\ (/\ ~endpoint
                     /\ after.speech_frames > 0
                     /\ after.speech_frames * after.frame_ms < after.min_partial_speech_ms)
                    => /\ eng'.calls = 0
                       /\ resp'.ok
                       /\ resp'.result.kind = "none"
                       /\ after.last_partial_samples = after.buffer_size
                       /\ after.buffer_size = before.buffer_size + req'.samples]_vars

\* C18 witness: a push during speech that has passed the minimum-speech guard and
\* is not transcribed because fewer than interval_samples arrived since the last
\* partial pass
C18_Witness ==
    /\ req.method = "stream_push"
    /\ resp.ok
    /\ resp.result.kind = "none"
    /\ resp.result.endpoint = "false"
    /\ eng.calls = 0
    /\ \E sid \in DOMAIN sessions :
          /\ sid = req.session_id
          /\ sessions[sid].speech_frames * sessions[sid].frame_ms
             >= sessions[sid].min_partial_speech_ms
          /\ sessions[sid].last_partial_samples > 0
          /\ sessions[sid].buffer_size > sessions[sid].last_partial_samples
          /\ sessions[sid].buffer_size - sessions[sid].last_partial_samples
             < IntervalSamples(sessions[sid])

-----------------------------------------------------------------------------
(* main: the request loop                                                   *)

\* ping
Ping ==
    /\ req' = [method |-> "ping", session_id |-> ""]
    /\ resp' = _ok([message |-> "jspeak-speech-service alive", time |-> "now"])
    /\ eng' = NoEngineCall
    /\ UNCHANGED <<sessions, model_name, pure>>

\* capabilities
Capabilities ==
    /\ req' = [method |-> "capabilities", session_id |-> ""]
    /\ resp' = _ok([protocol |-> "jsonl-1", streaming |-> "true",
                    audio_formats |-> "pcm_s16le_b64", sample_rates_hz |-> "16000"])
    /\ eng' = NoEngineCall
    /\ UNCHANGED <<sessions, model_name, pure>>

\* the methods handle knows
Methods == {"ping", "capabilities", "stream_start", "stream_push", "stream_finalize"}

\* a request whose method is none of them ("None": the request has no method)
UnknownMethod(method) ==
    /\ method \notin Methods
    /\ req' = [method |-> method, session_id |-> ""]
    /\ resp' = _err("Unknown method: " \o method)
    /\ eng' = NoEngineCall
    /\ UNCHANGED <<sessions, model_name, pure>>

\* stream_start whose sample_rate_hz is no integer: int() raises inside handle's
\* try, before the model is looked at
StreamStartUnparsable(sid) ==
    /\ req' = [method |-> "stream_start", session_id |-> sid, model |-> "unread"]
    /\ resp' = _err("invalid literal for int() with base 10")
    /\ eng' = NoEngineCall
    /\ UNCHANGED <<sessions, model_name, pure>>

\* a non-blank line that json.loads rejects, or that is JSON but no object, so
\* that handle raises on req.get: main's except answers "Bad request"
BadRequest(why) ==
    /\ req' = [method |-> "malformed", session_id |-> ""]
    /\ resp' = _err("Bad request: " \o why)
    /\ eng' = NoEngineCall
    /\ UNCHANGED <<sessions, model_name, pure>>

\* what makes a line a bad request
BadLines == {"Expecting value", "'list' object has no attribute 'get'"}

\* main reads a non-blank line at the head of its loop: handle (or the except
\* clause) computes the response, which is still to be written
Received(line) ==
    /\ io.pc = "read"
    /\ io' = [pc |-> "write", line |-> line, written |-> 0]
    /\ UNCHANGED mic

\* mutant: a blank line is answered like a request
BlankLineAnswered ==
    /\ io.pc = "read"
    /\ io' = [pc |-> "write", line |-> "blank", written |-> 0]
    /\ UNCHANGED <<sessions, model_name, req, resp, eng, pure, mic>>

\* main reads a line that is empty after strip(): continue
BlankLine ==
    /\ io.pc = "read"
    /\ io' = [pc |-> "read", line |-> "blank", written |-> 0]
    /\ UNCHANGED <<sessions, model_name, req, resp, eng, pure, mic>>

\* _write(resp), after which main takes the next line
WriteResponse ==
    /\ io.pc = "write"
    /\ io' = [io EXCEPT !.pc = "read", !.written = @ + 1]
    /\ UNCHANGED <<sessions, model_name, req, resp, eng, pure, mic>>

\* standard input is at its end: the for loop and main return
EndOfInput ==
    /\ io.pc = "read"
    /\ io' = [pc |-> "exited", line |-> "eof", written |-> 0]
    /\ UNCHANGED <<sessions, model_name, req, resp, eng, pure, mic>>

\* the stream_start parameters and the pushes of the request loop's model
MainConfigs ==
    [ sample_rate_hz : {16000}, partial_interval_ms : PartialIntervalMs,
      max_partial_context_s : MaxPartialContextS,
      min_partial_speech_ms : MinPartialSpeechMs, end_silence_ms : EndSilenceMs ]

MainPushSizes == {960}

NextMain ==
    \/ BlankLine
    \/ EndOfInput
    \/ WriteResponse
    \/ \E why \in BadLines : Received("malformed") /\ BadRequest(why)
    \/ Received("request") /\ Ping
    \/ Received("request") /\ Capabilities
    \/ \E method \in {"None", "reset"} : Received("request") /\ UnknownMethod(method)
    \/ \E sid \in SessionIds : Received("request") /\ StreamStartUnparsable(sid)
    \/ \E sid \in SessionIds, model \in Models \cup {""}, c \in MainConfigs :
          \E load_ok \in IF is_loaded(model) THEN {TRUE} ELSE BOOLEAN :
             /\ Received("request")
             /\ StreamStart(sid, model, c.sample_rate_hz, c.partial_interval_ms,
                            c.max_partial_context_s, c.min_partial_speech_ms,
                            c.end_silence_ms, load_ok)
    \/ \E sid \in SessionIds, b \in BadPushes :
          Received("request") /\ StreamPushRejected(sid, b.format, b.audio)
    \/ \E sid \in (SessionIds \cup {""}) \ DOMAIN sessions :
          Received("request") /\ StreamPushRejected(sid, "pcm_s16le_b64", "pcm")
    \/ \E sid \in DOMAIN sessions, n \in MainPushSizes :
          \E flags \in FlagSeqs(sessions[sid], n) :
             Received("request") /\ StreamPush(sid, n, flags)
    \/ \E sid \in SessionIds \cup {""} : Received("request") /\ StreamFinalize(sid)

SpecMain == Init /\ [][NextMain]_vars

\* exactly one of result and error is populated
WellFormed(response) ==
    /\ response.ok \in BOOLEAN
    /\ response.ok => (response.result # None /\ response.error = "None")
    /\ ~response.ok => (response.result = None /\ response.error # "None")

\* the step reads a request line and computes its response
HandlesLine == io.pc = "read" /\ io'.pc = "write"

\* the line handled by the step is one of the failures: unknown method or
\* malformed request, unknown session id, unsupported format, missing or
\* undecodable audio, or an exception raised by the engine
FailingLine ==
    \/ req'.method \notin Methods
    \/ /\ req'.method \in {"stream_push", "stream_finalize"}
       /\ req'.session_id \notin DOMAIN sessions
    \/ /\ req'.method = "stream_push"
       /\ (req'.format # "pcm_s16le_b64" \/ req'.audio # "pcm")
    \/ /\ eng'.calls = 1
       /\ ~eng'.out.ok

\* C19: every request yields a response with exactly one of result/error
\* populated: ok=true implies a result map and a null error, ok=false a null
\* result and an error message.  Unknown method, unknown session id, unsupported
\* format, missing audio, a malformed request and an internal exception all give
\* ok=false, and the loop goes on to write the response and read the next line:
\* main leaves its loop only at the end of its input.
C19_OneOfResultError ==
    /\ [](req # NoRequest => WellFormed(resp))
    /\ [][(HandlesLine /\ FailingLine) => (~resp'.ok /\ WellFormed(resp'))]_vars
    /\ [][io'.pc = "exited" => (io.pc \in {"read", "exited"} /\ io'.line = "eof")]_vars

\* C19 witness: the engine raised while a stream_push was handled; the response
\* was ok=false with a null result, it has been written, and main is reading on
C19_Witness ==
    /\ io.pc = "read"
    /\ io.written = 1
    /\ req.method = "stream_push"
    /\ eng.calls = 1
    /\ ~eng.out.ok
    /\ ~resp.ok
    /\ resp.result = None
    /\ resp.error = eng.out.error

\* C20: requests are processed one at a time in arrival order.  A line is read
\* only at the head of the loop, when the response to the line before has been
\* written; exactly one response is written per non-blank line and none for a
\* blank one; a request is handled, and the engine is invoked (at most once), only
\* in the step that reads it, so no two transcriptions overlap.
C20_OneAtATime ==
    /\ [][io'.written = 0
          => /\ io.pc = "read"
             /\ io.line \in {"request", "malformed"} => io.written = 1]_vars
    /\ [](/\ io.written \in {0, 1}
          /\ io.pc = "write" => (io.line \in {"request", "malformed"} /\ io.written = 0)
          /\ (io.pc = "read" /\ io.line \in {"request", "malformed"}) => io.written = 1
          /\ io.line \in {"none", "blank", "eof"} => (io.written = 0 /\ io.pc # "write")
          /\ eng.calls \in {0, 1})
    /\ [][io.pc # "read" => UNCHANGED <<sessions, model_name, req, resp, eng>>]_vars

\* C20 witness: a stream_finalize that transcribed the buffer of earlier pushes
\* has been answered exactly once, and main is back at the head of its loop
C20_Witness ==
    /\ io.pc = "read"
    /\ io.line = "request"
    /\ io.written = 1
    /\ req.method = "stream_finalize"
    /\ eng.calls = 1
    /\ eng.samples > 0
    /\ resp.ok

(***************************************************************************)
(* jsp_mic_client: the capture callback feeds a bounded queue that the     *)
(* main thread drains.  A chunk is named by its capture number.            *)
(***************************************************************************)

\* queue.Queue(maxsize=50)
QueueCapacity == 50

\* the number of chunks the device delivers in a run
MaxChunks == 52

\* a put that appends whatever the queue holds
PutAlways(q, x) == Append(q, x)

\* q.put_nowait(x) inside try/except queue.Full: the chunk is appended when the
\* queue has room and dropped when it is full; the call never waits
put_nowait(q, x) == IF Len(q) < QueueCapacity THEN Append(q, x) ELSE q

\* with sd.InputStream(...callback=audio_cb...): the stream starts delivering
OpenStream ==
    /\ mic.stream = "unopened"
    /\ mic' = [mic EXCEPT !.stream = "open"]
    /\ UNCHANGED <<sessions, model_name, req, resp, eng, pure, io>>

\* audio_cb up to the copy of indata: a callback of an open stream returns at
\* once when the stop flag is set, and otherwise holds a copy of the chunk
AudioCbCheck ==
    /\ mic.stream \in {"open", "closing"}
    /\ mic.cb = "idle"
    /\ mic.captured < MaxChunks
    /\ mic' = IF mic.stop
              THEN [mic EXCEPT !.captured = @ + 1]
              ELSE [mic EXCEPT !.captured = @ + 1, !.cb = "copied",
                               !.x = mic.captured + 1]
    /\ UNCHANGED <<sessions, model_name, req, resp, eng, pure, io>>

\* audio_cb from q.put_nowait(x) to its return
AudioCbPut ==
    /\ mic.cb = "copied"
    /\ mic' = [mic EXCEPT !.q = put_nowait(mic.q, mic.x),
                          !.dropped = IF put_nowait(mic.q, mic.x) = mic.q
                                      THEN @ + 1 ELSE @,
                          !.cb = "idle", !.x = 0]
    /\ UNCHANGED <<sessions, model_name, req, resp, eng, pure, io>>

\* x = q.get(timeout=0.25) returning the oldest chunk
ConsumerGet ==
    /\ mic.stream = "open"
    /\ mic.q # <<>>
    /\ mic' = [mic EXCEPT !.q = Tail(@), !.taken = Head(mic.q)]
    /\ UNCHANGED <<sessions, model_name, req, resp, eng, pure, io>>

\* q.get(timeout=0.25) raising queue.Empty: the loop continues
ConsumerEmpty ==
    /\ mic.stream = "open"
    /\ mic.q = <<>>
    /\ mic' = [mic EXCEPT !.taken = 0]
    /\ UNCHANGED <<sessions, model_name, req, resp, eng, pure, io>>

\* an exception (KeyboardInterrupt) leaves the loop and enters the exit of the
\* with block
Interrupt ==
    /\ mic.stream = "open"
    /\ mic' = [mic EXCEPT !.stream = "closing"]
    /\ UNCHANGED <<sessions, model_name, req, resp, eng, pure, io>>

\* the exit of the with block returns: the stream is closed, which ends the
\* callback in progress
CloseStream ==
    /\ mic.stream = "closing"
    /\ mic.cb = "idle"
    /\ mic' = [mic EXCEPT !.stream = "closed"]
    /\ UNCHANGED <<sessions, model_name, req, resp, eng, pure, io>>

\* finally: stop.set()
SetStop ==
    /\ mic.stream = "closed"
    /\ ~mic.stop
    /\ mic' = [mic EXCEPT !.stop = TRUE]
    /\ UNCHANGED <<sessions, model_name, req, resp, eng, pure, io>>

NextMic ==
    \/ OpenStream
    \/ AudioCbCheck
    \/ AudioCbPut
    \/ ConsumerGet
    \/ ConsumerEmpty
    \/ Interrupt
    \/ CloseStream
    \/ SetStop

SpecMic == Init /\ [][NextMic]_vars

\* the chunks of a queue are in the order of their capture
InCaptureOrder(q) == \A i, j \in 1..Len(q) : i < j => q[i] < q[j]

\* C21: the capture callback never blocks and the queue never holds more than 50
\* chunks.  A callback that finds the queue full drops its chunk and leaves the
\* queue as it was; otherwise a step changes the queue only by appending the chunk
\* of the callback at the tail or by removing the head, so the queued chunks keep
\* their capture order; and once the stop flag is set the queue receives nothing.
C21_MicBackpressure ==
    /\ [](/\ Len(mic.q) <= QueueCapacity
          /\ InCaptureOrder(mic.q)
          /\ mic.cb = "copied" => ENABLED AudioCbPut
          /\ mic.stop => mic.cb = "idle")
    /\ [][/\ (mic.cb = "copied" /\ mic'.cb = "idle" /\ Len(mic.q) = QueueCapacity)
             => (mic'.q = mic.q /\ mic'.dropped = mic.dropped + 1)
          /\ (mic.cb = "copied" /\ mic'.cb = "idle" /\ Len(mic.q) < QueueCapacity)
             => (mic'.q = Append(mic.q, mic.x) /\ mic'.dropped = mic.dropped)
          /\ mic'.q # mic.q
             => \/ mic.cb = "copied" /\ mic'.cb = "idle"
                \/ mic.q # <<>> /\ mic'.q = Tail(mic.q)
          /\ mic.stop => mic'.q = mic.q]_vars

\* C21 witness: the queue is full, a chunk has been dropped, and the run has
\* ended with the stop flag set
C21_Witness ==
    /\ Len(mic.q) = QueueCapacity
    /\ mic.dropped > 0
    /\ mic.stop

(***************************************************************************)
(* The Text Normalizer alone                                               *)
(***************************************************************************)

\* the Text Normalizer as handle applies it to a transcript that is no command:
\* mixed-language spacing, then tone/punctuation repair
Normalize(text) == _apply_tone_punctuation(_normalize_mixed_spacing(text))

\* the characters of the texts normalized: U+5417 ("ma"), "i", "s", "?", space,
\* the ideographic full stop U+3002, and "."
NormalizeAlphabet == {21527, 105, 115, 63, 32, 12290, 46}

NormalizeInputs == UNION {[1..n -> NormalizeAlphabet] : n \in 0..MaxTextLen}

\* a text waiting to be normalized
InitNormalize ==
    /\ sessions = <<>>
    /\ model_name = "None"
    /\ req = NoRequest
    /\ resp = _err("no request yet")
    /\ eng = NoEngineCall
    /\ pure \in {[fn |-> "input", input |-> text, once |-> <<>>, output |-> <<>>] :
                    text \in NormalizeInputs}
    /\ io = LoopHead
    /\ mic = MicStart

\* the normalizer applied to the text
ApplyNormalize ==
    /\ pure.fn = "input"
    /\ pure' = [pure EXCEPT !.fn = "Normalize", !.once = Normalize(pure.input),
                            !.output = Normalize(pure.input)]
    /\ UNCHANGED <<sessions, model_name, req, resp, eng, io, mic>>

\* the normalizer applied to its own result
ApplyNormalizeAgain ==
    /\ pure.fn = "Normalize"
    /\ pure' = [pure EXCEPT !.fn = "NormalizeTwice", !.output = Normalize(pure.once)]
    /\ UNCHANGED <<sessions, model_name, req, resp, eng, io, mic>>

NextNormalize ==
    \/ ApplyNormalize
    \/ ApplyNormalizeAgain

SpecNormalize == InitNormalize /\ [][NextNormalize]_vars

\* C22: for every input text, normalizing twice (mixed-language spacing followed
\* by tone/punctuation repair, both times) gives the result of normalizing once.
C22_NormalizeIdempotent ==
    pure.fn = "NormalizeTwice" => pure.output = pure.once


-----------------------------------------------------------------------------
(* Endpoint, stabilization and interval claims of stream_push                *)

\* C23: whenever a stream_push response reports endpoint "true", the speech_frames
\* and silence_frames it reports satisfy speech_frames > 0 and
\* silence_frames * frame_ms >= end_silence_ms, also when the endpoint condition
\* is met at a frame that is not the last frame of the push.
C23_EndpointCountersReported ==
    [][\A sid \in SessionIds :
          EndpointReturned(sid)
              => /\ resp'.result.speech_frames > 0
                 /\ resp'.result.silence_frames * sessions[sid].frame_ms
                        >= sessions[sid].end_silence_ms]_vars

\* the request answered last was an accepted push to sid whose partial
\* transcription pass fired and returned (possibly empty) text
PartialPassBefore(sid) ==
    /\ req.method = "stream_push"
    /\ req.session_id = sid
    /\ eng.calls = 1
    /\ eng.out.ok
    /\ resp.ok
    /\ resp.result.endpoint = "false"

\* C24: the committed prefix is locked only after two consecutive partial passes
\* produced the same non-empty boundary candidate.  When the pass before produced
\* something else (another candidate, no boundary character, or an empty
\* hypothesis), the pass that follows it does not lock a prefix.
C24_LockNeedsConsecutivePasses ==
    [][\A sid \in SessionIds :
          (/\ PartialPassBefore(sid)
           /\ PartialPassStep(sid)
           /\ _boundary_prefix(eng.out.text) # _boundary_prefix(eng'.out.text))
              => sessions'[sid].committed_prefix = sessions[sid].committed_prefix]_vars

\* C25: a stream_push invokes the engine at most once; its response has endpoint
\* "true", kind "final" and final "true" exactly when push_audio declared an
\* endpoint; a push that declared one transcribes the whole utterance buffer and
\* runs no partial analysis (it reports no stable prefix or unstable suffix and
\* leaves no stabilization state behind); a push that declared none transcribes at
\* most the partial window and never answers kind "final".
C25_FinalIffEndpoint ==
    [][\A sid \in SessionIds :
          AcceptedPush(sid)
              => \A p \in {push_audio(sessions[sid], req'.samples, req'.flags)} :
                    /\ eng'.calls \in {0, 1}
                    /\ resp'.ok
                          => /\ (resp'.result.endpoint = "true") = p.endpoint
                             /\ (resp'.result.kind = "final") = p.endpoint
                             /\ (resp'.result.final = "true") = p.endpoint
                    /\ p.endpoint
                          => /\ eng'.calls = 1
                             /\ eng'.samples = p.sess.buffer_size
                             /\ resp'.ok
                                   => /\ resp'.result.stable_prefix = <<>>
                                      /\ resp'.result.unstable_suffix = <<>>
                                      /\ sessions'[sid].committed_prefix = <<>>
                                      /\ sessions'[sid].prefix_streak = 0
                    /\ (~p.endpoint /\ eng'.calls = 1)
                          => eng'.samples = WindowSamples(p.sess)]_vars

\* C25 witness: a push of two silent frames brought the endpoint after speech of
\* earlier pushes; one transcription of the whole buffer of 1920 samples answered
\* it with kind final
C25_Witness ==
    /\ req.method = "stream_push"
    /\ req.flags = <<FALSE, FALSE>>
    /\ resp.ok
    /\ resp.result.endpoint = "true"
    /\ resp.result.kind = "final"
    /\ resp.result.text # <<>>
    /\ eng.calls = 1
    /\ eng.samples = 1920

\* the step is an accepted push to sid whose partial branch invoked the engine
PartialInvocationStep(sid) ==
    /\ AcceptedPush(sid)
    /\ eng'.calls = 1
    /\ ~push_audio(sessions[sid], req'.samples, req'.flags).endpoint

\* C26: after every partial pass that fires, last_partial_samples equals the
\* buffer size, whether or not the text changed and also for an empty hypothesis;
\* hence a partial invocation that follows a partial pass of the same utterance
\* comes with at least interval_samples newly pushed samples.
C26_PassAdvancesLastPartial ==
    [][\A sid \in SessionIds :
          PartialInvocationStep(sid)
              => /\ sessions'[sid].last_partial_samples = sessions'[sid].buffer_size
                 /\ PartialPassBefore(sid)
                       => req'.samples >= IntervalSamples(sessions[sid])]_vars

-----------------------------------------------------------------------------
(* stream_finalize, rejected pushes and model loading                        *)

\* the request answered last was a push to sid that returned an endpoint
EndpointBefore(sid) ==
    /\ req.method = "stream_push"
    /\ req.session_id = sid
    /\ resp.ok
    /\ resp.result.endpoint = "true"

\* C27: a stream_finalize that finds the buffer empty answers with the finalized
\* text of the utterance that the session's most recent endpoint completed, also
\* when that utterance finalized to the empty text after an earlier one that did
\* not.
C27_CacheIsLatestUtterance ==
    [][\A sid \in SessionIds :
          (/\ EndpointBefore(sid)
           /\ FinalizeStep(sid)
           /\ sessions[sid].buffer_size = 0)
              => /\ resp'.ok
                 /\ resp'.result.text = resp.result.text]_vars

\* the step answers a stream_push that is rejected before its audio is accepted
RejectedPushStep ==
    /\ req'.method = "stream_push"
    /\ \/ req'.session_id \notin DOMAIN sessions
       \/ req'.format # "pcm_s16le_b64"
       \/ req'.audio # "pcm"

\* C28: a stream_push with an unknown or missing session_id, a format other than
\* pcm_s16le_b64, no audio_b64 or undecodable audio_b64 is answered ok=false with
\* an error and no result, invokes no transcription, and leaves the registry and
\* every session in it as they were.
C28_RejectedPushChangesNothing ==
    [][RejectedPushStep
          => /\ ~resp'.ok
             /\ resp'.result = None
             /\ resp'.error # "None"
             /\ eng'.calls = 0
             /\ sessions' = sessions
             /\ model_name' = model_name]_vars

\* C28 witness: a push in the wrong format to a registered session that holds
\* audio and has seen speech was rejected
C28_Witness ==
    /\ req.method = "stream_push"
    /\ req.format = "wav"
    /\ ~resp.ok
    /\ req.session_id \in DOMAIN sessions
    /\ sessions[req.session_id].buffer_size > 0
    /\ sessions[req.session_id].speech_frames > 0

-----------------------------------------------------------------------------
(* Two sessions in one registry                                              *)

\* the session ids of two clients
PairIds == {"s1", "s2"}

\* the buffer sizes at which the two sessions are pushed: an utterance holds at
\* most two frames
PairBufferSizes == {0, 480}

\* stream_start parameters of the two sessions: two speech frames allow a partial
\* pass and one silent frame after speech ends the utterance
PairConfigs ==
    [ sample_rate_hz : {16000}, partial_interval_ms : PartialIntervalMs,
      max_partial_context_s : MaxPartialContextS,
      min_partial_speech_ms : MinPartialSpeechMs, end_silence_ms : {30} ]

\* pushes of one frame
PairPushSizes == {480}

NextPair ==
    \/ \E sid \in PairIds, model \in Models, c \in PairConfigs :
          /\ StreamStart(sid, model, c.sample_rate_hz, c.partial_interval_ms,
                         c.max_partial_context_s, c.min_partial_speech_ms,
                         c.end_silence_ms, TRUE)
          /\ UNCHANGED <<io, mic>>
    \/ \E sid \in DOMAIN sessions, n \in PairPushSizes :
          \E flags \in FlagSeqs(sessions[sid], n) :
             /\ sessions[sid].buffer_size \in PairBufferSizes
             /\ StreamPush(sid, n, flags)
             /\ UNCHANGED <<io, mic>>
    \/ \E sid \in PairIds : StreamFinalize(sid) /\ UNCHANGED <<io, mic>>

SpecPair == Init /\ [][NextPair]_vars

\* C29: a stream_push or stream_finalize addressed to session a leaves every other
\* session b as it was: b is registered afterwards exactly if it was before, and
\* its buffer, frame counters, stabilization fields and cached text are unchanged,
\* whatever requests to a and b came before.
C29_SessionsIndependent ==
    [][\A a \in PairIds :
          (req'.method \in {"stream_push", "stream_finalize"} /\ req'.session_id = a)
              => \A b \in PairIds \ {a} :
                    /\ (b \in DOMAIN sessions') = (b \in DOMAIN sessions)
                    /\ b \in DOMAIN sessions => sessions'[b] = sessions[b]]_vars

\* C29 witness: s1 was finalized from its cache after an endpoint while s2 is
\* registered in the middle of an utterance, with audio in its buffer and a
\* partial text emitted
C29_Witness ==
    /\ req.method = "stream_finalize"
    /\ req.session_id = "s1"
    /\ resp.ok
    /\ resp.result.text # <<>>
    /\ eng.calls = 0
    /\ DOMAIN sessions = {"s2"}
    /\ sessions["s2"].buffer_size > 0
    /\ sessions["s2"].last_emitted_text # <<>>

-----------------------------------------------------------------------------
(* Model loading                                                             *)

\* the models stream_start asks for
LoadModels == {"whisper-medium", "whisper-small"}

\* stream_start for either model, with mlx_whisper importable or not at the time
\* of the request, among the pushes and finalizes of SpecTrigger
NextLoad ==
    \/ \E sid \in SessionIds, model \in LoadModels, c \in TriggerConfigs :
          \E load_ok \in BOOLEAN :
             /\ StreamStart(sid, model, c.sample_rate_hz, c.partial_interval_ms,
                            c.max_partial_context_s, c.min_partial_speech_ms,
                            c.end_silence_ms, load_ok)
             /\ UNCHANGED <<io, mic>>
    \/ \E sid \in DOMAIN sessions, n \in TriggerPushSizes :
          \E flags \in FlagSeqs(sessions[sid], n) :
             StreamPush(sid, n, flags) /\ UNCHANGED <<io, mic>>
    \/ \E sid \in SessionIds : StreamFinalize(sid) /\ UNCHANGED <<io, mic>>

SpecLoad == Init /\ [][NextLoad]_vars

\* the step answers a stream_start that names the model
StartStep(model) ==
    /\ req'.method = "stream_start"
    /\ req'.model = model

\* the request answered last was a stream_start for the model whose load failed
LoadFailedBefore(model) ==
    /\ req.method = "stream_start"
    /\ req.model = model
    /\ ~resp.ok

\* C30: a stream_start whose model load fails answers ok=false, registers no
\* session and leaves the loaded-model identity as it was, so the model still
\* counts as not loaded; the next stream_start for that model attempts the load
\* again and succeeds when the load does; a stream_start for the model that is
\* loaded succeeds without loading, whether or not a load could succeed.
C30_LoadFailureAndRetry ==
    [][\A model \in LoadModels :
          StartStep(model)
              => /\ (model_name # model /\ ~req'.load_ok)
                       => /\ ~resp'.ok
                          /\ resp'.result = None
                          /\ sessions' = sessions
                          /\ model_name' = model_name
                 /\ (model_name # model /\ req'.load_ok)
                       => /\ resp'.ok
                          /\ model_name' = model
                          /\ req'.session_id \in DOMAIN sessions'
                 /\ LoadFailedBefore(model) => model_name # model
                 /\ model_name = model
                       => /\ resp'.ok
                          /\ model_name' = model_name
                          /\ req'.session_id \in DOMAIN sessions']_vars

\* C30 witness: with whisper-medium loaded and a session in the middle of an
\* utterance, a stream_start for whisper-small failed to load: the session and the
\* loaded model are still there
C30_Witness ==
    /\ req.method = "stream_start"
    /\ req.model = "whisper-small"
    /\ ~req.load_ok
    /\ ~resp.ok
    /\ model_name = "whisper-medium"
    /\ DOMAIN sessions = {"s1"}
    /\ sessions["s1"].buffer_size > 0

(***************************************************************************)
(* push_audio alone: which samples of the pushes are framed and scored     *)
(***************************************************************************)

\* the pushes of a run of push_audio
MaxPushes == 3

\* sample rates of the sessions pushed to: 16 kHz, 11.025 kHz, and two low rates
\* whose frames hold three samples and no sample
FrameRates == {16000, 11025, 133, 33}

\* the sizes of the pushes to a session: a single sample, one sample less than a
\* frame, a frame, a frame and one sample, two frames and one sample
PushLens(sess) ==
    {n \in {1, FrameLen(sess) - 1, FrameLen(sess), FrameLen(sess) + 1,
            2 * FrameLen(sess) + 1} : n > 0}

\* frames = audio_f32[start:].reshape((n_frames, frame_len)): the frames of a push
\* of n samples as spans [lo, hi] of sample positions in the session's buffer,
\* the first pushed sample having position buffer_size + 1
FrameSpans(sess, n) ==
    [i \in 1..NumFrames(sess, n) |->
        [lo |-> sess.buffer_size + (n - NumFrames(sess, n) * FrameLen(sess))
                + (i - 1) * FrameLen(sess) + 1,
         hi |-> sess.buffer_size + (n - NumFrames(sess, n) * FrameLen(sess))
                + i * FrameLen(sess)]]

\* a session of one of the rates before its first push
InitFrames ==
    /\ sessions = <<>>
    /\ model_name = "None"
    /\ req = NoRequest
    /\ resp = _err("no request yet")
    /\ eng = NoEngineCall
    /\ pure \in {[fn |-> "StreamSession", sess |-> NewSession(rate, 15, 20, 60, 40),
                  before |-> NewSession(rate, 15, 20, 60, 40), n |-> 0,
                  flags |-> <<>>, endpoint |-> FALSE, frames |-> <<>>,
                  scored |-> <<>>, pushes |-> 0] : rate \in FrameRates}
    /\ io = LoopHead
    /\ mic = MicStart

\* push_audio applied to n more samples whose frames the VAD classifies as flags;
\* pure keeps the session before and after, the frames of this push and the
\* frames scored by the pushes before it
ApplyPushAudio(n, flags) ==
    /\ pure.fn \in {"StreamSession", "push_audio"}
    /\ pure.pushes < MaxPushes
    /\ Len(flags) = NumFrames(pure.sess, n)
    /\ pure' = [fn |-> "push_audio",
                sess |-> push_audio(pure.sess, n, flags).sess,
                before |-> pure.sess,
                n |-> n,
                flags |-> flags,
                endpoint |-> push_audio(pure.sess, n, flags).endpoint,
                frames |-> FrameSpans(pure.sess, n),
                scored |-> pure.scored \o pure.frames,
                pushes |-> pure.pushes + 1]
    /\ UNCHANGED <<sessions, model_name, req, resp, eng, io, mic>>

NextFrames ==
    \E n \in PushLens(pure.sess) :
       \E flags \in FlagSeqs(pure.sess, n) : ApplyPushAudio(n, flags)

SpecFrames == InitFrames /\ [][NextFrames]_vars

\* the spans a and b share no sample
Disjoint(a, b) == a.hi < b.lo \/ b.hi < a.lo

\* C31: every pushed sample is appended to the buffer; a push of n samples yields
\* exactly floor(n / frame_length) frames, each of frame_length samples of that
\* push, no two of them and none of them and a frame of an earlier push sharing a
\* sample; a push of fewer than frame_length samples, or with frame_length <= 0,
\* leaves speech_frames and silence_frames as they were and declares no endpoint,
\* and since later frames lie within later pushes its samples are never scored.
C31_FramesOfNewSamplesOnly ==
    pure.fn = "push_audio"
        => /\ pure.sess.buffer_size = pure.before.buffer_size + pure.n
           /\ Len(pure.flags) = Len(pure.frames)
           /\ \E k \in 0..pure.n :
                 /\ Len(pure.frames) = k
                 /\ IF pure.sess.sample_rate_hz * pure.sess.frame_ms < 1000
                    THEN k = 0
                    ELSE /\ k * FrameLen(pure.sess) <= pure.n
                         /\ pure.n < (k + 1) * FrameLen(pure.sess)
           /\ \A i \in 1..Len(pure.frames) :
                 /\ pure.frames[i].lo > pure.before.buffer_size
                 /\ pure.frames[i].hi <= pure.sess.buffer_size
                 /\ pure.frames[i].hi - pure.frames[i].lo + 1 = FrameLen(pure.sess)
                 /\ \A j \in 1..Len(pure.frames) :
                       i # j => Disjoint(pure.frames[i], pure.frames[j])
                 /\ \A j \in 1..Len(pure.scored) :
                       Disjoint(pure.frames[i], pure.scored[j])
           /\ (FrameLen(pure.sess) <= 0 \/ pure.n < FrameLen(pure.sess))
                 => /\ pure.frames = <<>>
                    /\ pure.sess.speech_frames = pure.before.speech_frames
                    /\ pure.sess.silence_frames = pure.before.silence_frames
                    /\ ~pure.endpoint

\* C31 witness: after a push that scored frames, a push of fewer samples than a
\* frame has been appended without a frame, and the session has seen speech
C31_Witness ==
    /\ pure.fn = "push_audio"
    /\ pure.n > 1
    /\ pure.n < FrameLen(pure.sess)
    /\ pure.frames = <<>>
    /\ pure.scored # <<>>
    /\ pure.sess.speech_frames > 0
    /\ pure.sess.buffer_size > pure.n

\* the integer nearest to a / b, for a >= 0 and b > 0 (halves go up)
Nearest(a, b) == (2 * a + b) \div (2 * b)

\* C32: the frame length equals round(sample_rate * frame_ms / 1000), the nearest
\* integer, for every sample rate, also when sample_rate * frame_ms is no
\* multiple of 1000.
C32_FrameLenIsRounded ==
    pure.fn = "push_audio"
        => FrameLen(pure.sess)
              = Nearest(pure.sess.sample_rate_hz * pure.sess.frame_ms, 1000)

-----------------------------------------------------------------------------
(* An endpoint's final text, cached and finalized again                      *)

\* the characters of the transcripts: U+5417 ("ma"), ".", space, "?" and "i"
RecommitAlphabet == {21527, 46, 32, 63, 105}

\* the transcripts the engine returns at the endpoint: transcribe strips its result
RecommitInputs ==
    {t \in UNION {[1..n -> RecommitAlphabet] : n \in 0..MaxTextLen} : Strip(t) = t}
        \cup Hyps

\* a session at the endpoint of an utterance of three frames
AtEndpoint ==
    [NewSession(16000, 15, 20, 60, 40) EXCEPT !.buffer_size = 1440,
                                              !.speech_frames = 1,
                                              !.silence_frames = 2]

\* the transcript of an utterance at its endpoint
InitRecommit ==
    /\ sessions = <<>>
    /\ model_name = "None"
    /\ req = NoRequest
    /\ resp = _err("no request yet")
    /\ eng = NoEngineCall
    /\ pure \in {[fn |-> "transcribe", input |-> raw, sess |-> AtEndpoint,
                  final |-> None, output |-> None] : raw \in RecommitInputs}
    /\ io = LoopHead
    /\ mic = MicStart

\* the endpoint branch of stream_push on the transcript: the result of the
\* response and the session with its cache
ApplyFinalPass ==
    /\ pure.fn = "transcribe"
    /\ \E r \in {FinalResult("s1", pure.sess, Finalized(pure.input),
                             CommittedText(Finalized(pure.input)))} :
          pure' = [pure EXCEPT !.fn = "stream_push", !.sess = r.sess,
                               !.final = r.result]
    /\ UNCHANGED <<sessions, model_name, req, resp, eng, io, mic>>

\* stream_finalize of the session right after the endpoint: the buffer is empty
\* and the text comes from the cache
ApplyFinalize ==
    /\ pure.fn = "stream_push"
    /\ pure.sess.buffer_size = 0
    /\ pure' = [pure EXCEPT
                  !.fn = "stream_finalize",
                  !.output = FinalizeReply("s1", pure.sess, NotInvoked,
                                 Finalized(FinalizeText(pure.sess, NotInvoked))).resp.result]
    /\ UNCHANGED <<sessions, model_name, req, resp, eng, io, mic>>

NextRecommit ==
    \/ ApplyFinalPass
    \/ ApplyFinalize

SpecRecommit == InitRecommit /\ [][NextRecommit]_vars

\* C33: a stream_finalize with nothing pushed since an endpoint whose finalized
\* text was not empty returns the text and the actions of that endpoint's final
\* stream_push response: spacing, command interpretation and tone repair leave the
\* cached text as it is.
C33_FinalizeRepeatsCommit ==
    (pure.fn = "stream_finalize" /\ pure.final.text # <<>>)
        => /\ pure.output.text = pure.final.text
           /\ pure.output.actions = pure.final.actions

\* ---------------------------------------------------------------------------
\* stream_start on a session id that is already registered

\* a session as the constructor leaves it: nothing buffered, no frame counted,
\* no prefix tracked, nothing emitted and nothing cached
FreshSession(sess) ==
    /\ UtteranceReset(sess)
    /\ sess.segments_text = <<>>
    /\ sess.last_emitted_text = <<>>

\* C34: a stream_start on an id that is already registered, whose model is loaded
\* or loads, is answered without error and leaves under that id a fresh session:
\* the buffer, the frame counters, the stabilization state and the cached text of
\* the old session are gone, and the registry holds the same ids as before
C34_RestartReplacesSession ==
    [][\A sid \in DOMAIN sessions :
          ( /\ req'.method = "stream_start"
            /\ req'.session_id = sid
            /\ req'.model # ""
            /\ (model_name = req'.model \/ req'.load_ok) )
          => /\ resp'.ok
             /\ DOMAIN sessions' = DOMAIN sessions
             /\ FreshSession(sessions'[sid])]_vars

\* a stream_start has just replaced a session that held buffered audio and a
\* cached finalized text
C34_Witness ==
    /\ req.method = "stream_start"
    /\ resp.ok
    /\ req.replaced.found
    /\ req.replaced.buffer_size > 0
    /\ req.replaced.segments_text # <<>>
    /\ req.session_id \in DOMAIN sessions
    /\ FreshSession(sessions[req.session_id])
====
